---- MODULE Spec2Model ----
(***************************************************************************)
(* HTTP/1.1 server engine of Brownie44l1/http1.1: the incremental request  *)
(* parser, the response writer, the keep-alive policy and the connection   *)
(* loop, modelled at the level of bytes.  A byte is a one-character        *)
(* string; a byte string is a sequence of bytes.  Offsets follow Go        *)
(* (0-based, half-open slices).                                            *)
(***************************************************************************)
EXTENDS Integers, Sequences, FiniteSets, TLC

VARIABLES
    shutdown,   \* Server.shutdown
    conn,       \* the connection loop's locals and its position
    parser,     \* the parser and Request of the request being read
    w,          \* the response.Writer of the request being served
    net,        \* the transport: bytes in flight in both directions
    client,     \* the peer: what it still has to send
    hist,       \* history: what the handler has been invoked with
    inner,      \* the goroutine a TimeoutMiddleware has left running
    shutdownPc, \* the position of Server.Shutdown
    srv         \* what the connection tasks share: the Metrics, the RateLimiter

vars == <<shutdown, conn, parser, w, net, client, hist, inner, shutdownPc, srv>>

(***************************************************************************)
(* Bytes.                                                                  *)
(***************************************************************************)
\* bytes that a string literal cannot hold are named
NUL == "NUL"
Backtick == "backtick"
crlf == <<"\r","\n">>
Upper == <<"A","B","C","D","E","F","G","H","I","J","K","L","M","N","O","P","Q","R","S","T","U","V","W","X","Y","Z">>
Lower == <<"a","b","c","d","e","f","g","h","i","j","k","l","m","n","o","p","q","r","s","t","u","v","w","x","y","z">>
Digits == <<"0","1","2","3","4","5","6","7","8","9">>
TokenSymbols == <<"!","#","$","%","&","'","*","+","-",".","^","_","|","~">> \o <<Backtick>>
Whitespace == {" ", "\t", "\n", "\r"}

Range(s) == {s[i] : i \in 1..Len(s)}
Min2(a, b) == IF a < b THEN a ELSE b
Slice(s, lo, hi) == SubSeq(s, lo + 1, hi)
From(s, lo) == SubSeq(s, lo + 1, Len(s))
PosIn(s, b) == CHOOSE i \in 1..Len(s) : s[i] = b

Index(data, sep) ==
    LET n == Len(sep)
        at == {i \in 0..(Len(data) - n) : Slice(data, i, i + n) = sep}
    IN  IF at = {} THEN -1 ELSE CHOOSE i \in at : \A j \in at : i <= j

ContainsAny(s, chars) == \E i \in 1..Len(s) : s[i] \in chars

LowerByte(b) == IF b \in Range(Upper) THEN Lower[PosIn(Upper, b)] ELSE b
ToLower(s) == [i \in 1..Len(s) |-> LowerByte(s[i])]

RECURSIVE TrimLeft(_)
TrimLeft(s) == IF s # <<>> /\ s[1] \in Whitespace THEN TrimLeft(Tail(s)) ELSE s
RECURSIVE TrimRight(_)
TrimRight(s) ==
    IF s # <<>> /\ s[Len(s)] \in Whitespace THEN TrimRight(SubSeq(s, 1, Len(s) - 1)) ELSE s
TrimSpace(s) == TrimRight(TrimLeft(s))

\* strconv.ParseInt(s, base, 64) for base 10 and 16: an optional sign, then at
\* least one digit of the base.  Values stay within TLC's integers (the numbers
\* in the requests of the model are far below 2^31).
HexLower == <<"0","1","2","3","4","5","6","7","8","9","a","b","c","d","e","f">>
DigitVal(b) == PosIn(HexLower, LowerByte(b)) - 1
IsDigit(b, base) == LowerByte(b) \in Range(HexLower) /\ DigitVal(b) < base
RECURSIVE DigitsValue(_, _, _)
DigitsValue(s, base, acc) ==
    IF s = <<>> THEN acc ELSE DigitsValue(Tail(s), base, acc * base + DigitVal(s[1]))
ParseInt(s, base) ==
    LET signed == s # <<>> /\ s[1] \in {"+", "-"}
        ds == IF signed THEN Tail(s) ELSE s
    IN  IF ds = <<>> \/ \E i \in 1..Len(ds) : ~IsDigit(ds[i], base)
        THEN [v |-> 0, err |-> "strconv.ErrSyntax"]
        ELSE [v |-> IF signed /\ s[1] = "-" THEN 0 - DigitsValue(ds, base, 0)
                    ELSE DigitsValue(ds, base, 0),
              err |-> "nil"]

\* strconv.Itoa / fmt %d, and fmt %x, of a number >= 0
RECURSIVE FormatInt(_, _)
FormatInt(n, base) ==
    IF n < base THEN <<HexLower[n + 1]>>
    ELSE FormatInt(n \div base, base) \o <<HexLower[(n % base) + 1]>>

(***************************************************************************)
(* internal/request/requestline.go                                         *)
(***************************************************************************)
Methods == {<<"G","E","T">>, <<"P","O","S","T">>, <<"P","U","T">>, <<"D","E","L","E","T","E">>, <<"P","A","T","C","H">>, <<"H","E","A","D">>, <<"O","P","T","I","O","N","S">>}
HTTP10 == <<"H","T","T","P","/","1",".","0">>
HTTP11 == <<"H","T","T","P","/","1",".","1">>

isValidMethod(method) == method \in Methods
isValidPath(path) == Len(path) # 0
isValidVersion(version) == version = HTTP10 \/ version = HTTP11

RequestLineResult(m, p, v, n, e) ==
    [method |-> m, path |-> p, version |-> v, consumed |-> n, err |-> e]

\* bytes.SplitN(s, sep, 3) for a separator of one byte
SplitN3(s, sep) ==
    LET Last(first, rest, sp2) ==
            IF sp2 = -1 THEN <<first, rest>>
            ELSE <<first, Slice(rest, 0, sp2), From(rest, sp2 + 1)>>
        Second(first, rest) == Last(first, rest, Index(rest, sep))
        First(sp1) ==
            IF sp1 = -1 THEN <<s>> ELSE Second(Slice(s, 0, sp1), From(s, sp1 + 1))
    IN  First(Index(s, sep))

parseRequestLine(data) ==
    LET fail(e) == RequestLineResult(<<>>, <<>>, <<>>, 0, e)
        Fields(idx, parts) ==
            IF Len(parts) # 3 THEN fail("ErrMalformedRequestLine")
            ELSE IF ~isValidMethod(parts[1]) THEN fail("ErrInvalidMethod")
            ELSE IF ~isValidPath(parts[2]) THEN fail("ErrInvalidPath")
            ELSE IF ~isValidVersion(parts[3]) THEN fail("ErrUnsupportedVersion")
            ELSE RequestLineResult(parts[1], parts[2], parts[3], idx + 2, "nil")
        Line(idx) ==
            IF idx = -1 THEN fail("nil")
            ELSE Fields(idx, SplitN3(Slice(data, 0, idx), <<" ">>))
    IN  Line(Index(data, crlf))

(***************************************************************************)
(* internal/headers/headers.go                                             *)
(***************************************************************************)
MaxHeaderLines == 100
MaxHeaderSize == 1048576

NewHeaders ==
    [headers |-> <<>>,
     tracking |-> [seenHost |-> FALSE, seenContentLength |-> FALSE,
                   contentLengthValue |-> 0, seenTransferEncoding |-> FALSE,
                   isChunked |-> FALSE, headerCount |-> 0, totalSize |-> 0]]

Lookup(h, key) == IF key \in DOMAIN h.headers THEN h.headers[key] ELSE <<>>
GetAll(h, key) == Lookup(h, ToLower(key))
Get(h, key) ==
    LET First(values) ==
            IF Len(values) = 0 THEN [value |-> <<>>, ok |-> FALSE]
            ELSE [value |-> values[1], ok |-> TRUE]
    IN  First(Lookup(h, ToLower(key)))

\* h.headers[key] = values
Store(h, key, values) ==
    [h EXCEPT !.headers = [k \in DOMAIN h.headers \cup {key} |->
                              IF k = key THEN values ELSE h.headers[k]]]
\* Set storing under the name as spelled
SetVerbatim(h, key, value) == Store(h, key, <<value>>)
Set(h, key, value) == Store(h, ToLower(key), <<value>>)
Add(h, key, value) ==
    LET At(k) == Store(h, k, Append(Lookup(h, k), value))
    IN  At(ToLower(key))

isValidHeaderChar(b) ==
    b \in Range(Upper) \cup Range(Lower) \cup Range(Digits) \cup Range(TokenSymbols)

parseHeader(line) ==
    LET fail(e) == [name |-> <<>>, value |-> <<>>, err |-> e]
        Pair(name, value) ==
            IF ContainsAny(name, {" ", "\t"}) THEN fail("ErrMalformedHeader")
            ELSE IF Len(name) = 0 THEN fail("ErrMalformedHeader")
            ELSE IF \E i \in 1..Len(name) : ~isValidHeaderChar(name[i])
                 THEN fail("wrapped:ErrInvalidHeaderChar")
            ELSE IF ContainsAny(value, {NUL, "\r", "\n"})
                 THEN fail("invalid characters in header value")
            ELSE [name |-> name, value |-> TrimSpace(value), err |-> "nil"]
        Cut(at) ==
            IF at = -1 THEN fail("ErrMalformedHeader")
            ELSE Pair(Slice(line, 0, at), From(line, at + 1))
    IN  Cut(Index(line, <<":">>))

\* addWithValidation with the default case of the switch alone: every field line
\* is appended
addWithValidationAppending(h, name, value) ==
    [h |-> Store(h, ToLower(name), Append(Lookup(h, ToLower(name)), value)), err |-> "nil"]

addWithValidation(h, name, value) ==
    LET t == h.tracking
        Length(nameLower, cl) ==
            IF cl.err # "nil" \/ cl.v < 0
            THEN [h |-> h, err |-> "invalid Content-Length"]
            ELSE IF t.seenContentLength
            THEN IF t.contentLengthValue # cl.v
                 THEN [h |-> h, err |-> "ErrConflictingContentLength"]
                 ELSE [h |-> h, err |-> "nil"]
            ELSE [h |-> Store([h EXCEPT !.tracking.seenContentLength = TRUE,
                                        !.tracking.contentLengthValue = cl.v],
                              nameLower, <<value>>),
                  err |-> "nil"]
        Switch(nameLower) ==
            IF nameLower = <<"h","o","s","t">>
            THEN IF t.seenHost THEN [h |-> h, err |-> "ErrDuplicateHost"]
                 ELSE [h |-> Store([h EXCEPT !.tracking.seenHost = TRUE], nameLower, <<value>>),
                       err |-> "nil"]
            ELSE IF nameLower = <<"c","o","n","t","e","n","t","-","l","e","n","g","t","h">>
            THEN Length(nameLower, ParseInt(value, 10))
            ELSE IF nameLower = <<"t","r","a","n","s","f","e","r","-","e","n","c","o","d","i","n","g">>
            THEN IF t.seenTransferEncoding
                 THEN [h |-> h, err |-> "ErrDuplicateTransferEncoding"]
                 ELSE [h |-> Store([h EXCEPT !.tracking.seenTransferEncoding = TRUE,
                                             !.tracking.isChunked =
                                                 (@ \/ ToLower(TrimSpace(value)) = <<"c","h","u","n","k","e","d">>)],
                                   nameLower, <<value>>),
                       err |-> "nil"]
            ELSE [h |-> Store(h, nameLower, Append(Lookup(h, nameLower), value)),
                  err |-> "nil"]
    IN  Switch(ToLower(name))

validateFinalLax(h) == "nil"

validateFinal(h) ==
    IF h.tracking.isChunked /\ h.tracking.seenContentLength
    THEN "ErrBothChunkedAndLength" ELSE "nil"

\* Headers.Parse: the for loop, entered with `read` bytes of data consumed
RECURSIVE HeadersParseLoop(_, _, _)
HeadersParseLoop(h, data, read) ==
    LET out(hh, n, d, e) == [h |-> hh, n |-> n, done |-> d, err |-> e]
        Added(av, next) ==
            IF av.err # "nil" THEN out(av.h, read, FALSE, av.err)
            ELSE HeadersParseLoop([av.h EXCEPT !.tracking.headerCount = @ + 1], data, next)
        Parsed(h1, ph, next) ==
            IF ph.err # "nil" THEN out(h1, read, FALSE, ph.err)
            ELSE Added(addWithValidation(h1, ph.name, ph.value), next)
        Line(h1, line, next) ==
            IF line[1] \in {" ", "\t"} THEN out(h1, read, FALSE, "ErrObsoleteLineFolding")
            ELSE Parsed(h1, parseHeader(line), next)
        Found(idx) ==
            IF idx = -1 THEN out(h, read, FALSE, "nil")
            ELSE IF idx = 0 THEN out(h, read + 2, TRUE, validateFinal(h))
            ELSE Line([h EXCEPT !.tracking.totalSize = @ + idx],
                      Slice(data, read, read + idx), read + idx + 2)
    IN  IF h.tracking.headerCount >= MaxHeaderLines
        THEN out(h, read, FALSE, "headers.ErrTooManyHeaders")
        ELSE IF h.tracking.totalSize >= MaxHeaderSize
        THEN out(h, read, FALSE, "headers.ErrHeaderTooLarge")
        ELSE Found(Index(From(data, read), crlf))

HeadersParse(h, data) == HeadersParseLoop(h, data, 0)

(***************************************************************************)
(* internal/request/body.go: the chunk sub-parser                          *)
(***************************************************************************)
maxChunkSize == 10485760
maxChunkSizeLine == 1024

NewChunkParser ==
    [state |-> "chunkStateSize", chunkSize |-> 0, chunkRead |-> 0, totalBodySize |-> 0]

\* chunkParser.parseChunkSize: [cp, n, err]
parseChunkSize(cp, data) ==
    LET out(n, e) == [cp |-> cp, n |-> n, err |-> e]
        Sized(idx, size) ==
            IF size.err # "nil" THEN out(0, "wrapped:ErrInvalidChunkSize")
            ELSE IF size.v < 0 THEN out(0, "ErrInvalidChunkSize")
            ELSE IF size.v > maxChunkSize THEN out(0, "ErrChunkTooLarge")
            ELSE [cp |-> [cp EXCEPT !.chunkSize = size.v], n |-> idx + 2, err |-> "nil"]
        \* parts := bytes.SplitN(sizeLine, ";", 2), cut at semi when there is one
        Parts(idx, sizeLine, semi) ==
            IF semi # -1 /\ ContainsAny(From(sizeLine, semi + 1), {"\r", "\n", NUL})
            THEN out(0, "invalid characters in chunk extension")
            ELSE Sized(idx, ParseInt(TrimSpace(IF semi = -1 THEN sizeLine
                                               ELSE Slice(sizeLine, 0, semi)), 16))
        SizeLine(idx, sizeLine) == Parts(idx, sizeLine, Index(sizeLine, <<";">>))
        Line(idx) ==
            IF idx = -1
            THEN IF Len(data) >= maxChunkSizeLine THEN out(0, "ErrChunkSizeLineTooLong")
                 ELSE out(0, "nil")
            ELSE SizeLine(idx, Slice(data, 0, idx))
    IN  Line(Index(Slice(data, 0, Min2(Len(data), maxChunkSizeLine)), crlf))

\* parseChunkedIncremental: the for loop, entered with `consumed` bytes of data used
RECURSIVE ChunkedLoop(_, _, _, _, _)
ChunkedLoop(data, body, cp, maxBody, consumed) ==
    LET rest == From(data, consumed)
        out(b, c, n, d, e) == [body |-> b, cp |-> c, n |-> n, done |-> d, err |-> e]
        Size(sz) ==
            IF sz.err # "nil" THEN out(body, cp, consumed, FALSE, sz.err)
            ELSE IF sz.n = 0 THEN out(body, cp, consumed, FALSE, "nil")
            ELSE ChunkedLoop(data, body,
                     IF sz.cp.chunkSize = 0
                     THEN [sz.cp EXCEPT !.state = "chunkStateTrailer"]
                     ELSE [sz.cp EXCEPT !.state = "chunkStateData", !.chunkRead = 0],
                     maxBody, consumed + sz.n)
        Data(toRead) ==
            IF cp.totalBodySize + toRead > maxBody
            THEN out(body, cp, consumed, FALSE, "ErrBodyTooLarge")
            ELSE IF cp.chunkRead + toRead = cp.chunkSize
            THEN ChunkedLoop(data, body \o Slice(rest, 0, toRead),
                     [cp EXCEPT !.chunkRead = @ + toRead, !.totalBodySize = @ + toRead,
                                !.state = "chunkStateDataCRLF"],
                     maxBody, consumed + toRead)
            ELSE out(body \o Slice(rest, 0, toRead),
                     [cp EXCEPT !.chunkRead = @ + toRead, !.totalBodySize = @ + toRead],
                     consumed + toRead, FALSE, "nil")
        Trailer(idx) ==
            IF idx = -1
            THEN IF Len(rest) > maxChunkSizeLine
                 THEN out(body, cp, consumed, FALSE, "trailer headers too large")
                 ELSE out(body, cp, consumed, FALSE, "nil")
            ELSE IF ContainsAny(Slice(rest, 0, idx), {NUL})
            THEN out(body, cp, consumed, FALSE, "null byte in trailer headers")
            ELSE out(body, [cp EXCEPT !.state = "chunkStateDone"],
                     consumed + idx + 4, TRUE, "nil")
    IN  IF ~(consumed < Len(data)) THEN out(body, cp, consumed, FALSE, "nil")
        ELSE IF cp.state = "chunkStateSize" THEN Size(parseChunkSize(cp, rest))
        ELSE IF cp.state = "chunkStateData"
        THEN Data(Min2(cp.chunkSize - cp.chunkRead, Len(rest)))
        ELSE IF cp.state = "chunkStateDataCRLF"
        THEN IF Len(rest) < 2 THEN out(body, cp, consumed, FALSE, "nil")
             ELSE IF rest[1] # "\r" \/ rest[2] # "\n"
             THEN out(body, cp, consumed, FALSE, "ErrInvalidChunkFormat")
             ELSE ChunkedLoop(data, body, [cp EXCEPT !.state = "chunkStateSize"],
                              maxBody, consumed + 2)
        ELSE IF cp.state = "chunkStateTrailer"
        THEN IF Len(rest) < 2 THEN out(body, cp, consumed, FALSE, "nil")
             ELSE IF rest[1] = "\r" /\ rest[2] = "\n"
             THEN out(body, [cp EXCEPT !.state = "chunkStateDone"], consumed + 2, TRUE, "nil")
             ELSE Trailer(Index(rest, crlf \o crlf))
        ELSE out(body, cp, consumed, TRUE, "nil")

parseChunkedIncremental(data, body, cp, maxBody) == ChunkedLoop(data, body, cp, maxBody, 0)

(***************************************************************************)
(* request package: Request (part_010) and parser (part_008)               *)
(***************************************************************************)
maxRequestLineSize == 8192
maxHeaderSize == 1048576
maxHeaderLines == 1000
maxURILength == 8192
readBufSize == 4096

NewRequest ==
    [Method |-> <<>>, Path |-> <<>>, Version |-> <<>>, Headers |-> NewHeaders, Body |-> <<>>]

IsHTTP10(req) == req.Version = HTTP10

ContentLength(req) ==
    LET Parsed(length) == IF length.err # "nil" THEN -1 ELSE length.v
        Value(cl) == IF ~cl.ok THEN -1 ELSE Parsed(ParseInt(cl.value, 10))
    IN  Value(Get(req.Headers, <<"c","o","n","t","e","n","t","-","l","e","n","g","t","h">>))

IsChunked(req) ==
    LET Value(te) == te.ok /\ te.value = <<"c","h","u","n","k","e","d">>
    IN  Value(Get(req.Headers, <<"t","r","a","n","s","f","e","r","-","e","n","c","o","d","i","n","g">>))

\* newParser taking a body limit of at most one byte for unset and falling back
\* to the size of the largest chunk
newParserDefaulting(maxBodySize) ==
    [state |-> "stateRequestLine", buffer |-> <<>>, chunkParser |-> NewChunkParser,
     totalBytesRead |-> 0, headerLines |-> 0,
     maxBodySize |-> IF maxBodySize <= 1 THEN maxChunkSize ELSE maxBodySize]

\* newParser keeping one byte less than the configured body limit
newParserShort(maxBodySize) ==
    [state |-> "stateRequestLine", buffer |-> <<>>, chunkParser |-> NewChunkParser,
     totalBytesRead |-> 0, headerLines |-> 0, maxBodySize |-> maxBodySize - 1]
newParser(maxBodySize) ==
    [state |-> "stateRequestLine", buffer |-> <<>>, chunkParser |-> NewChunkParser,
     totalBytesRead |-> 0, headerLines |-> 0, maxBodySize |-> maxBodySize]

\* the result of one substate step: the parser, the request, bytes consumed, error
Step(p, req, n, err) == [p |-> p, req |-> req, n |-> n, err |-> err]

parserParseRequestLine(p, req, data) ==
    LET Line(rl) ==
            IF rl.err # "nil" THEN Step(p, req, 0, rl.err)
            ELSE IF rl.consumed = 0 THEN Step(p, req, 0, "nil")
            ELSE IF Len(rl.path) > maxURILength THEN Step(p, req, 0, "ErrURITooLong")
            ELSE Step([p EXCEPT !.state = "stateHeaders"],
                      [req EXCEPT !.Method = rl.method, !.Path = rl.path,
                                  !.Version = rl.version],
                      rl.consumed, "nil")
    IN  IF Len(data) > maxRequestLineSize THEN Step(p, req, 0, "ErrRequestLineTooLarge")
        ELSE Line(parseRequestLine(data))

parserParseHeaders(p, req, data) ==
    LET p1 == [p EXCEPT !.headerLines = @ + 1]
        Length(req1, n, cl) ==
            IF cl > 0
            THEN IF cl > p.maxBodySize THEN Step(p1, req1, 0, "ErrBodyTooLarge")
                 ELSE Step([p1 EXCEPT !.state = "stateBody"], req1, n, "nil")
            ELSE Step([p1 EXCEPT !.state = "stateDone"], req1, n, "nil")
        Complete(req1, n, chunked) ==
            IF chunked THEN Step([p1 EXCEPT !.state = "stateBody"], req1, n, "nil")
            ELSE Length(req1, n, ContentLength(req1))
        Parsed(hp, req1) ==
            IF hp.err # "nil" THEN Step(p, req1, 0, hp.err)
            ELSE IF p1.headerLines > maxHeaderLines
            THEN Step(p1, req1, 0, "request.ErrTooManyHeaders")
            ELSE IF ~hp.done THEN Step(p1, req1, hp.n, "nil")
            ELSE Complete(req1, hp.n, IsChunked(req1))
        Headers(hp) == Parsed(hp, [req EXCEPT !.Headers = hp.h])
    IN  Headers(HeadersParse(req.Headers, data))

\* parseFixedBody that takes the body for complete with the bytes at hand
parseFixedBodyEager(p, req, data) ==
    LET Take(toRead) ==
            Step([p EXCEPT !.state = "stateDone"],
                 [req EXCEPT !.Body = @ \o Slice(data, 0, toRead)], toRead, "nil")
    IN  Take(Min2(ContentLength(req) - Len(req.Body), Len(data)))

\* parseFixedBody that takes every byte at hand
parseFixedBodyGreedy(p, req, data) ==
    LET Take(cl, toRead) ==
            Step(IF Len(req.Body) + toRead >= cl THEN [p EXCEPT !.state = "stateDone"] ELSE p,
                 [req EXCEPT !.Body = @ \o Slice(data, 0, toRead)], toRead, "nil")
    IN  Take(ContentLength(req), Len(data))

parseFixedBody(p, req, data) ==
    LET Take(cl, toRead) ==
            IF Len(req.Body) + toRead > p.maxBodySize THEN Step(p, req, 0, "ErrBodyTooLarge")
            ELSE Step(IF Len(req.Body) + toRead = cl THEN [p EXCEPT !.state = "stateDone"]
                      ELSE p,
                      [req EXCEPT !.Body = @ \o Slice(data, 0, toRead)], toRead, "nil")
        Length(cl) ==
            IF cl < 0 THEN Step(p, req, 0, "missing Content-Length for body")
            ELSE IF cl > p.maxBodySize THEN Step(p, req, 0, "ErrBodyTooLarge")
            ELSE IF cl - Len(req.Body) <= 0
            THEN Step([p EXCEPT !.state = "stateDone"], req, 0, "nil")
            ELSE Take(cl, Min2(cl - Len(req.Body), Len(data)))
    IN  Length(ContentLength(req))

\* parseChunkedBody that goes back to the header state after the last chunk
parseChunkedBodyRewinding(p, req, data) ==
    LET Chunks(r, p1, req1) ==
            IF r.err # "nil" THEN Step(p1, req1, 0, r.err)
            ELSE Step(IF r.done THEN [p1 EXCEPT !.state = "stateHeaders"] ELSE p1,
                      req1, r.n, "nil")
        Parsed(r) == Chunks(r, [p EXCEPT !.chunkParser = r.cp], [req EXCEPT !.Body = r.body])
    IN  Parsed(parseChunkedIncremental(data, req.Body, p.chunkParser, p.maxBodySize))

\* parseChunkedBody that starts every call with a fresh chunk parser
parseChunkedBodyForgetful(p, req, data) ==
    LET Chunks(r, p1, req1) ==
            IF r.err # "nil" THEN Step(p1, req1, 0, r.err)
            ELSE Step(IF r.done THEN [p1 EXCEPT !.state = "stateDone"] ELSE p1,
                      req1, r.n, "nil")
        Parsed(r) == Chunks(r, [p EXCEPT !.chunkParser = r.cp], [req EXCEPT !.Body = r.body])
    IN  Parsed(parseChunkedIncremental(data, req.Body, NewChunkParser, p.maxBodySize))

parseChunkedBody(p, req, data) ==
    LET Chunks(r, p1, req1) ==
            IF r.err # "nil" THEN Step(p1, req1, 0, r.err)
            ELSE Step(IF r.done THEN [p1 EXCEPT !.state = "stateDone"] ELSE p1,
                      req1, r.n, "nil")
        Parsed(r) == Chunks(r, [p EXCEPT !.chunkParser = r.cp], [req EXCEPT !.Body = r.body])
    IN  Parsed(parseChunkedIncremental(data, req.Body, p.chunkParser, p.maxBodySize))

parseBody(p, req, data) ==
    IF IsChunked(req) THEN parseChunkedBody(p, req, data) ELSE parseFixedBody(p, req, data)

parse(p, req, data) ==
    IF p.state = "stateRequestLine" THEN parserParseRequestLine(p, req, data)
    ELSE IF p.state = "stateHeaders" THEN parserParseHeaders(p, req, data)
    ELSE IF p.state = "stateBody" THEN parseBody(p, req, data)
    ELSE Step(p, req, 0, "nil")

\* A parse in progress: the parser, its request, and where parseFromReader is:
\* "read" (blocked in reader.Read), "done" (returned nil) or "err" (returned err).
Parsing(p, req, at, err) == [p |-> p, req |-> req, at |-> at, err |-> err]

EffectiveMaxHeaderBytes(maxHeaderBytes) ==
    IF maxHeaderBytes <= 0 THEN maxHeaderSize ELSE maxHeaderBytes

\* parseFromReader from the head of its loop up to the next reader.Read
RECURSIVE ParseLoop(_, _, _)
ParseLoop(p, req, maxHeaderBytes) ==
    LET NeedData(p1, req1) ==
            IF p1.state # "stateBody" /\ Len(p1.buffer) >= maxHeaderBytes
            THEN Parsing(p1, req1, "err", "request.ErrHeaderTooLarge")
            ELSE Parsing(p1, req1, "read", "nil")
        Parsed(s) ==
            IF s.err # "nil" THEN Parsing(s.p, s.req, "err", s.err)
            ELSE IF s.n > 0
            THEN ParseLoop([s.p EXCEPT !.buffer = From(p.buffer, s.n)], s.req, maxHeaderBytes)
            ELSE NeedData(s.p, s.req)
    IN  IF p.state = "stateDone" THEN Parsing(p, req, "done", "nil")
        ELSE IF Len(p.buffer) > 0 THEN Parsed(parse(p, req, p.buffer))
        ELSE NeedData(p, req)

\* a parseFromReader that takes every io.EOF for the end of a complete request
AfterReadTrusting(p, req, maxHeaderBytes, data, rerr) ==
    LET n == Len(data)
        p1 == IF n > 0
              THEN [p EXCEPT !.buffer = @ \o data, !.totalBytesRead = @ + n]
              ELSE p
    IN  IF n > 0 /\ p.state # "stateBody" /\ Len(p.buffer) + n > maxHeaderBytes
        THEN Parsing(p, req, "err", "request.ErrHeaderTooLarge")
        ELSE IF rerr = "io.EOF" THEN Parsing(p1, req, "done", "nil")
        ELSE IF rerr # "nil" THEN Parsing(p1, req, "err", "wrapped:" \o rerr)
        ELSE ParseLoop(p1, req, maxHeaderBytes)

\* a parseFromReader that goes round its loop again on an early io.EOF
AfterReadRetrying(p, req, maxHeaderBytes, data, rerr) ==
    LET n == Len(data)
        p1 == IF n > 0
              THEN [p EXCEPT !.buffer = @ \o data, !.totalBytesRead = @ + n]
              ELSE p
    IN  IF n > 0 /\ p.state # "stateBody" /\ Len(p.buffer) + n > maxHeaderBytes
        THEN Parsing(p, req, "err", "request.ErrHeaderTooLarge")
        ELSE IF rerr \notin {"nil", "io.EOF"} THEN Parsing(p1, req, "err", "wrapped:" \o rerr)
        ELSE ParseLoop(p1, req, maxHeaderBytes)

\* parseFromReader from the return of reader.Read with (data, rerr) to the next
\* reader.Read or to its return
AfterRead(p, req, maxHeaderBytes, data, rerr) ==
    LET n == Len(data)
        p1 == IF n > 0
              THEN [p EXCEPT !.buffer = @ \o data, !.totalBytesRead = @ + n]
              ELSE p
    IN  IF n > 0 /\ p.state # "stateBody" /\ Len(p.buffer) + n > maxHeaderBytes
        THEN Parsing(p, req, "err", "request.ErrHeaderTooLarge")
        ELSE IF rerr = "io.EOF"
        THEN IF p1.state = "stateDone" THEN Parsing(p1, req, "done", "nil")
             ELSE Parsing(p1, req, "err", "unexpected EOF")
        ELSE IF rerr # "nil" THEN Parsing(p1, req, "err", "wrapped:" \o rerr)
        ELSE ParseLoop(p1, req, maxHeaderBytes)

\* RequestFromReaderWithConfig up to its first reader.Read
RequestFromReaderWithConfig(maxHeaderBytes, maxBodySize) ==
    ParseLoop(newParser(maxBodySize), NewRequest, EffectiveMaxHeaderBytes(maxHeaderBytes))

(***************************************************************************)
(* internal/response/response.go                                           *)
(***************************************************************************)
StatusContinue == 100
StatusOK == 200
StatusNoContent == 204
StatusFound == 302
StatusBadRequest == 400
StatusRequestTimeout == 408
StatusRequestEntityTooLarge == 413
StatusInternalServerError == 500

statusText(code) ==
    CASE code = 100 -> <<"C","o","n","t","i","n","u","e">>
      [] code = 200 -> <<"O","K">>
      [] code = 201 -> <<"C","r","e","a","t","e","d">>
      [] code = 202 -> <<"A","c","c","e","p","t","e","d">>
      [] code = 204 -> <<"N","o"," ","C","o","n","t","e","n","t">>
      [] code = 206 -> <<"P","a","r","t","i","a","l"," ","C","o","n","t","e","n","t">>
      [] code = 301 -> <<"M","o","v","e","d"," ","P","e","r","m","a","n","e","n","t","l","y">>
      [] code = 302 -> <<"F","o","u","n","d">>
      [] code = 303 -> <<"S","e","e"," ","O","t","h","e","r">>
      [] code = 304 -> <<"N","o","t"," ","M","o","d","i","f","i","e","d">>
      [] code = 307 -> <<"T","e","m","p","o","r","a","r","y"," ","R","e","d","i","r","e","c","t">>
      [] code = 308 -> <<"P","e","r","m","a","n","e","n","t"," ","R","e","d","i","r","e","c","t">>
      [] code = 400 -> <<"B","a","d"," ","R","e","q","u","e","s","t">>
      [] code = 401 -> <<"U","n","a","u","t","h","o","r","i","z","e","d">>
      [] code = 403 -> <<"F","o","r","b","i","d","d","e","n">>
      [] code = 404 -> <<"N","o","t"," ","F","o","u","n","d">>
      [] code = 405 -> <<"M","e","t","h","o","d"," ","N","o","t"," ","A","l","l","o","w","e","d">>
      [] code = 406 -> <<"N","o","t"," ","A","c","c","e","p","t","a","b","l","e">>
      [] code = 408 -> <<"R","e","q","u","e","s","t"," ","T","i","m","e","o","u","t">>
      [] code = 409 -> <<"C","o","n","f","l","i","c","t">>
      [] code = 412 -> <<"P","r","e","c","o","n","d","i","t","i","o","n"," ","F","a","i","l","e","d">>
      [] code = 413 -> <<"R","e","q","u","e","s","t"," ","E","n","t","i","t","y"," ","T","o","o"," ","L","a","r","g","e">>
      [] code = 414 -> <<"U","R","I"," ","T","o","o"," ","L","o","n","g">>
      [] code = 415 -> <<"U","n","s","u","p","p","o","r","t","e","d"," ","M","e","d","i","a"," ","T","y","p","e">>
      [] code = 416 -> <<"R","e","q","u","e","s","t","e","d"," ","R","a","n","g","e"," ","N","o","t"," ","S","a","t","i","s","f","i","a","b","l","e">>
      [] code = 417 -> <<"E","x","p","e","c","t","a","t","i","o","n"," ","F","a","i","l","e","d">>
      [] code = 429 -> <<"T","o","o"," ","M","a","n","y"," ","R","e","q","u","e","s","t","s">>
      [] code = 500 -> <<"I","n","t","e","r","n","a","l"," ","S","e","r","v","e","r"," ","E","r","r","o","r">>
      [] code = 501 -> <<"N","o","t"," ","I","m","p","l","e","m","e","n","t","e","d">>
      [] code = 502 -> <<"B","a","d"," ","G","a","t","e","w","a","y">>
      [] code = 503 -> <<"S","e","r","v","i","c","e"," ","U","n","a","v","a","i","l","a","b","l","e">>
      [] code = 504 -> <<"G","a","t","e","w","a","y"," ","T","i","m","e","o","u","t">>
      [] OTHER -> <<"U","n","k","n","o","w","n">>

\* The io.Writer under a Writer: the bytes it has accepted, and how many more
\* Write calls succeed before every later one fails (-1: none ever fails).
NewSink(budget) == [out |-> <<>>, budget |-> budget]
SinkWrite(t, data) ==
    IF t.budget = 0 THEN [t |-> t, ok |-> FALSE]
    ELSE [t |-> [out |-> t.out \o data,
                 budget |-> IF t.budget > 0 THEN t.budget - 1 ELSE t.budget],
          ok |-> TRUE]

\* consecutive w.w.Write calls, stopping at the first that fails
RECURSIVE SinkWriteAll(_, _)
SinkWriteAll(t, pieces) ==
    LET Written(r) == IF r.ok THEN SinkWriteAll(r.t, Tail(pieces)) ELSE r
    IN  IF pieces = <<>> THEN [t |-> t, ok |-> TRUE]
        ELSE Written(SinkWrite(t, Head(pieces)))

NewWriter ==
    [state |-> "stateStart", statusCode |-> 0, contentLength |-> -1,
     isChunked |-> FALSE, hadError |-> FALSE, headers |-> NewHeaders]

\* the result of a writer call: the writer, the sink, the error returned
Wrote(wr, t, err) == [w |-> wr, t |-> t, err |-> err]

WriteStatusLine(wr, t, code) ==
    LET Written(r) ==
            IF ~r.ok THEN Wrote([wr EXCEPT !.hadError = TRUE], r.t, "write error")
            ELSE Wrote([wr EXCEPT !.statusCode = code, !.state = "stateStatusWritten"],
                       r.t, "nil")
    IN  IF wr.state # "stateStart" THEN Wrote(wr, t, "status line already written")
        ELSE Written(SinkWrite(t, <<"H","T","T","P","/","1",".","1"," ">> \o FormatInt(code, 10) \o <<" ">>
                                      \o statusText(code) \o crlf))

\* the lines `for key, values := range h.GetAllHeaders()` emits, the keys taken
\* in the order ord (Go leaves the order of a map range unspecified)
RECURSIVE HeaderLines(_, _)
HeaderLines(h, ord) ==
    IF ord = <<>> THEN <<>>
    ELSE [i \in 1..Len(h.headers[Head(ord)]) |->
              Head(ord) \o <<":"," ">> \o h.headers[Head(ord)][i] \o crlf]
         \o HeaderLines(h, Tail(ord))

WriteHeaders(wr, t, h, ord) ==
    LET Parsed(w0, length) ==
            IF length.err = "nil" THEN [w0 EXCEPT !.contentLength = length.v] ELSE w0
        Length(w0, cl) == IF cl.ok THEN Parsed(w0, ParseInt(cl.value, 10)) ELSE w0
        Encoding(w0, te) ==
            IF te.ok /\ te.value = <<"c","h","u","n","k","e","d">> THEN [w0 EXCEPT !.isChunked = TRUE] ELSE w0
        Written(w1, r) ==
            IF ~r.ok THEN Wrote([w1 EXCEPT !.hadError = TRUE], r.t, "write error")
            ELSE Wrote([w1 EXCEPT !.state = "stateHeadersWritten"], r.t, "nil")
        Stored(w1) ==
            Written([w1 EXCEPT !.headers = h], SinkWriteAll(t, HeaderLines(h, ord) \o <<crlf>>))
    IN  IF wr.state # "stateStatusWritten"
        THEN Wrote(wr, t, "must write status line before headers")
        ELSE Stored(Encoding(Length(wr, Get(h, <<"c","o","n","t","e","n","t","-","l","e","n","g","t","h">>)),
                             Get(h, <<"t","r","a","n","s","f","e","r","-","e","n","c","o","d","i","n","g">>)))

\* WriteBody without line 206: a failed write is returned but not recorded
WriteBodyUnflagged(wr, t, data) ==
    LET Written(r) ==
            IF ~r.ok THEN Wrote(wr, r.t, "write error")
            ELSE Wrote([wr EXCEPT !.state = "stateBodyWritten"], r.t, "nil")
    IN  IF wr.state # "stateHeadersWritten" /\ wr.state # "stateBodyWritten"
        THEN Wrote(wr, t, "must write headers before body")
        ELSE IF Len(data) = 0 THEN Wrote([wr EXCEPT !.state = "stateBodyWritten"], t, "nil")
        ELSE Written(SinkWrite(t, data))
WriteBody(wr, t, data) ==
    LET Written(r) ==
            IF ~r.ok THEN Wrote([wr EXCEPT !.hadError = TRUE], r.t, "write error")
            ELSE Wrote([wr EXCEPT !.state = "stateBodyWritten"], r.t, "nil")
    IN  IF wr.state # "stateHeadersWritten" /\ wr.state # "stateBodyWritten"
        THEN Wrote(wr, t, "must write headers before body")
        ELSE IF Len(data) = 0 THEN Wrote([wr EXCEPT !.state = "stateBodyWritten"], t, "nil")
        ELSE Written(SinkWrite(t, data))

\* WriteChunk writing the chunk size in decimal
WriteChunkDecimal(wr, t, data) ==
    LET Written(r) ==
            IF ~r.ok THEN Wrote([wr EXCEPT !.hadError = TRUE], r.t, "write error")
            ELSE Wrote([wr EXCEPT !.state = "stateBodyWritten"], r.t, "nil")
    IN  IF wr.state # "stateHeadersWritten" /\ wr.state # "stateBodyWritten"
        THEN Wrote(wr, t, "must write headers before chunks")
        ELSE IF Len(data) = 0 THEN Wrote(wr, t, "nil")
        ELSE Written(SinkWriteAll(t, <<FormatInt(Len(data), 10) \o crlf, data, crlf>>))

WriteChunk(wr, t, data) ==
    LET Written(r) ==
            IF ~r.ok THEN Wrote([wr EXCEPT !.hadError = TRUE], r.t, "write error")
            ELSE Wrote([wr EXCEPT !.state = "stateBodyWritten"], r.t, "nil")
    IN  IF wr.state # "stateHeadersWritten" /\ wr.state # "stateBodyWritten"
        THEN Wrote(wr, t, "must write headers before chunks")
        ELSE IF Len(data) = 0 THEN Wrote(wr, t, "nil")
        ELSE Written(SinkWriteAll(t, <<FormatInt(Len(data), 16) \o crlf, data, crlf>>))

FinishChunked(wr, t) ==
    LET Written(r) ==
            IF ~r.ok THEN Wrote([wr EXCEPT !.hadError = TRUE], r.t, "write error")
            ELSE Wrote([wr EXCEPT !.state = "stateBodyWritten"], r.t, "nil")
    IN  IF wr.state # "stateHeadersWritten" /\ wr.state # "stateBodyWritten"
        THEN Wrote(wr, t, "must write headers before finishing chunks")
        ELSE Written(SinkWrite(t, <<"0","\r","\n","\r","\n">>))

WriteTrailers(wr, t, h, ord) ==
    LET Written(r) ==
            IF ~r.ok THEN Wrote([wr EXCEPT !.hadError = TRUE], r.t, "write error")
            ELSE Wrote(wr, r.t, "nil")
    IN  IF wr.state # "stateBodyWritten" THEN Wrote(wr, t, "must write body before trailers")
        ELSE Written(SinkWriteAll(t, HeaderLines(h, ord) \o <<crlf>>))

\* status line, then headers, then (when withBody) the body: the shape shared by
\* the convenience wrappers
StatusHeadersBody(wr, t, code, h, ord, withBody, body) ==
    LET Headed(hd) ==
            IF hd.err # "nil" \/ ~withBody THEN hd ELSE WriteBody(hd.w, hd.t, body)
        Started(s) == IF s.err # "nil" THEN s ELSE Headed(WriteHeaders(s.w, s.t, h, ord))
    IN  Started(WriteStatusLine(wr, t, code))

TextHeaders(text) ==
    Set(Set(NewHeaders, <<"C","o","n","t","e","n","t","-","T","y","p","e">>, <<"t","e","x","t","/","p","l","a","i","n",";"," ","c","h","a","r","s","e","t","=","u","t","f","-","8">>),
        <<"C","o","n","t","e","n","t","-","L","e","n","g","t","h">>, FormatInt(Len(text), 10))
TextResponse(wr, t, code, text, ord) ==
    StatusHeadersBody(wr, t, code, TextHeaders(text), ord, TRUE, text)

HTMLHeaders(html) ==
    Set(Set(NewHeaders, <<"C","o","n","t","e","n","t","-","T","y","p","e">>, <<"t","e","x","t","/","h","t","m","l",";"," ","c","h","a","r","s","e","t","=","u","t","f","-","8">>),
        <<"C","o","n","t","e","n","t","-","L","e","n","g","t","h">>, FormatInt(Len(html), 10))
HTMLResponse(wr, t, code, html, ord) ==
    StatusHeadersBody(wr, t, code, HTMLHeaders(html), ord, TRUE, html)

JSONHeaders(json) ==
    Set(Set(NewHeaders, <<"C","o","n","t","e","n","t","-","T","y","p","e">>, <<"a","p","p","l","i","c","a","t","i","o","n","/","j","s","o","n",";"," ","c","h","a","r","s","e","t","=","u","t","f","-","8">>),
        <<"C","o","n","t","e","n","t","-","L","e","n","g","t","h">>, FormatInt(Len(json), 10))
JSONResponse(wr, t, code, json, ord) ==
    StatusHeadersBody(wr, t, code, JSONHeaders(json), ord, TRUE, json)

ErrorResponse(wr, t, code, message, ord) == TextResponse(wr, t, code, message, ord)

RedirectHeaders(location) ==
    Set(Set(NewHeaders, <<"L","o","c","a","t","i","o","n">>, location), <<"C","o","n","t","e","n","t","-","L","e","n","g","t","h">>, <<"0">>)
RedirectResponse(wr, t, code, location, ord) ==
    StatusHeadersBody(wr, t, code, RedirectHeaders(location), ord, FALSE, <<>>)

NoContentResponse(wr, t) ==
    StatusHeadersBody(wr, t, StatusNoContent, NewHeaders, <<>>, FALSE, <<>>)

ContinueResponse(wr, t) ==
    LET Written(r) ==
            IF ~r.ok THEN Wrote([wr EXCEPT !.hadError = TRUE], r.t, "write error")
            ELSE Wrote(wr, r.t, "nil")
    IN  Written(SinkWrite(t, <<"H","T","T","P","/","1",".","1"," ","1","0","0"," ","C","o","n","t","i","n","u","e","\r","\n","\r","\n">>))

HadError(wr) == wr.hadError
HasContentLength(wr) == wr.contentLength >= 0

\* the orders in which a range over the map of h can visit its keys
KeyOrders(h) ==
    LET keys == DOMAIN h.headers
        n == Cardinality(keys)
    IN  {ord \in [1..n -> keys] : \A i, j \in 1..n : i # j => ord[i] # ord[j]}

(***************************************************************************)
(* internal/server/conn.go (handleConnection with config, metrics, logger  *)
(* and shuttingDown) and the Server of part_002                            *)
(***************************************************************************)
maxRequestsPerConn == 1000

DefaultConfig ==
    [ReadTimeout |-> 15, WriteTimeout |-> 15, IdleTimeout |-> 60,
     MaxHeaderBytes |-> 1048576, MaxRequestBodySize |-> 10485760,
     MaxRequestsPerConn |-> 1000]

\* shouldKeepAlive without lines 254-258: every version keeps alive by default
shouldKeepAliveByDefault(req, wr, shuttingDown) ==
    LET Request(c) == ~c.ok \/ c.value # <<"c","l","o","s","e">>
        Response(connHeader) ==
            IF connHeader.ok /\ connHeader.value = <<"c","l","o","s","e">> THEN FALSE
            ELSE Request(Get(req.Headers, <<"c","o","n","n","e","c","t","i","o","n">>))
    IN  IF shuttingDown THEN FALSE
        ELSE IF HadError(wr) THEN FALSE
        ELSE Response(Get(wr.headers, <<"c","o","n","n","e","c","t","i","o","n">>))
shouldKeepAlive(req, wr, shuttingDown) ==
    LET Request(c) ==
            IF IsHTTP10(req) THEN c.ok /\ c.value = <<"k","e","e","p","-","a","l","i","v","e">>
            ELSE ~c.ok \/ c.value # <<"c","l","o","s","e">>
        Response(connHeader) ==
            IF connHeader.ok /\ connHeader.value = <<"c","l","o","s","e">> THEN FALSE
            ELSE Request(Get(req.Headers, <<"c","o","n","n","e","c","t","i","o","n">>))
    IN  IF shuttingDown THEN FALSE
        ELSE IF HadError(wr) THEN FALSE
        ELSE Response(Get(wr.headers, <<"c","o","n","n","e","c","t","i","o","n">>))

\* the status handleConnection answers a failed parse with (0: none, it returns)
ParseErrorStatus(err) ==
    IF err = "io.EOF" THEN 0
    ELSE IF err = "net.TimeoutError" THEN 0
    ELSE IF err \in {"request.ErrHeaderTooLarge", "ErrBodyTooLarge", "ErrRequestLineTooLarge"}
    THEN StatusRequestEntityTooLarge
    ELSE StatusBadRequest
ParseErrorMessage(code) ==
    IF code = StatusRequestEntityTooLarge THEN <<"R","e","q","u","e","s","t"," ","t","o","o"," ","l","a","r","g","e">> ELSE <<"I","n","v","a","l","i","d"," ","r","e","q","u","e","s","t">>

\* the transport as the io.Writer of a Writer
ConnSink(n) == [out |-> n.out, budget |-> IF n.broken THEN 0 ELSE -1]

\* A handler is a straight-line program of calls on its Context.  A call is
\* [op, code, key, data, h]; RunCalls folds the calls over the writer and the sink.
Call(op, code, key, data, h) ==
    [op |-> op, code |-> code, key |-> key, data |-> data, h |-> h]
\* [w, t, hijacked, abort, recovered, base]: the writer and the sink as the calls
\* so far leave them; whether the handler has hijacked; whether it has panicked,
\* "before" or "after" it added bytes to the base it started from; whether a
\* deferred recover() has caught the panic
Running(wr, t) ==
    [w |-> wr, t |-> t, hijacked |-> FALSE, abort |-> "none", recovered |-> FALSE,
     base |-> Len(t.out)]
RunCall(r, c, ord) ==
    LET Done(res) == [r EXCEPT !.w = res.w, !.t = res.t, !.hijacked = @ \/ c.op = "Hijack"]
    IN  IF c.op = "Panic"
        THEN [r EXCEPT !.abort = IF Len(r.t.out) > r.base THEN "after" ELSE "before"]
        ELSE
        Done(CASE c.op = "Text" -> TextResponse(r.w, r.t, c.code, c.data, ord)
               [] c.op = "NoContent" -> NoContentResponse(r.w, r.t)
               [] c.op = "Status" -> WriteStatusLine(r.w, r.t, c.code)
               [] c.op = "Headers" -> WriteHeaders(r.w, r.t, c.h, ord)
               [] c.op = "SetHeader" ->
                    Wrote([r.w EXCEPT !.headers = Set(@, c.key, c.data)], r.t, "nil")
               [] c.op = "StagedHeaders" -> WriteHeaders(r.w, r.t, r.w.headers, ord)
               [] c.op = "Body" -> WriteBody(r.w, r.t, c.data)
               [] c.op = "Chunk" -> WriteChunk(r.w, r.t, c.data)
               [] c.op = "Finish" -> FinishChunked(r.w, r.t)
               [] OTHER -> Wrote(r.w, r.t, "nil"))
RECURSIVE RunCalls(_, _, _)
RunCalls(r, calls, ord) ==
    IF calls = <<>> \/ r.abort # "none" THEN r
    ELSE RunCalls(RunCall(r, Head(calls), ord), Tail(calls), ord)

ServeHTTP(wr, t, prog, ord) == RunCalls(Running(wr, t), prog, ord)

\* RecoveryMiddleware(logger)(next).ServeHTTP: the deferred function answers a
\* panic of next with ctx.Error(500, "Internal Server Error")
RecoveryMiddleware(wr, t, prog, ord) ==
    LET Answered(r, e) == [r EXCEPT !.w = e.w, !.t = e.t, !.recovered = TRUE]
        Deferred(r) ==
            IF r.abort = "none" THEN r
            ELSE Answered(r, ErrorResponse(r.w, r.t, StatusInternalServerError,
                                           <<"I","n","t","e","r","n","a","l"," ","S","e","r","v","e","r"," ","E","r","r","o","r">>, ord))
    IN  Deferred(ServeHTTP(wr, t, prog, ord))


OkBody == <<"o","k">>
ChunkedHeaders == Set(NewHeaders, <<"T","r","a","n","s","f","e","r","-","E","n","c","o","d","i","n","g">>, <<"c","h","u","n","k","e","d">>)
Op(op) == Call(op, 0, <<>>, <<>>, NewHeaders)
HandlerPrograms ==
    { <<Call("Text", StatusOK, <<>>, OkBody, NewHeaders)>>,
      <<Op("NoContent")>>,
      <<Call("Status", StatusOK, <<>>, <<>>, NewHeaders),
        Call("SetHeader", 0, <<"C","o","n","t","e","n","t","-","L","e","n","g","t","h">>, <<"2">>, NewHeaders),
        Op("StagedHeaders"),
        Call("Body", 0, <<>>, OkBody, NewHeaders)>>,
      <<Call("Status", StatusOK, <<>>, <<>>, NewHeaders),
        Call("Headers", 0, <<>>, <<>>, ChunkedHeaders),
        Call("Chunk", 0, <<>>, OkBody, NewHeaders),
        Op("Finish")>>,
      <<Op("Hijack")>> }
\* handlers that panic: before any call, and after the status line and headers
PanicPrograms ==
    { <<Op("Panic")>>,
      <<Call("Status", StatusOK, <<>>, <<>>, NewHeaders),
        Call("Headers", 0, <<>>, <<>>, TextHeaders(OkBody)),
        Op("Panic")>> }
\* the handlers run under TimeoutMiddleware
TimeoutPrograms ==
    { <<Call("Status", StatusOK, <<>>, <<>>, NewHeaders),
        Call("Headers", 0, <<>>, <<>>, TextHeaders(OkBody)),
        Call("Body", 0, <<>>, OkBody, NewHeaders)>> }

\* the orders in which the handler's WriteHeaders can emit its header set
ProgramOrders(wr, t, prog) == KeyOrders(ServeHTTP(wr, t, prog, <<>>).w.headers)

(***************************************************************************)
(* The peer's requests.                                                    *)
(***************************************************************************)
SimpleGet == <<"G","E","T"," ","/","i","n","d","e","x",".","h","t","m","l"," ","H","T","T","P","/","1",".","1","\r","\n","H","o","s","t",":"," ","e","x","a","m","p","l","e",".","c","o","m","\r","\n","\r","\n">>
PostLength == <<"P","O","S","T"," ","/","a","p","i"," ","H","T","T","P","/","1",".","1","\r","\n","H","o","s","t",":"," ","a","\r","\n","C","o","n","t","e","n","t","-","L","e","n","g","t","h",":"," ","1","3","\r","\n","\r","\n","H","e","l","l","o",","," ","W","o","r","l","d","!">>
Get10 == <<"G","E","T"," ","/"," ","H","T","T","P","/","1",".","0","\r","\n","\r","\n">>
GetClose == <<"G","E","T"," ","/"," ","H","T","T","P","/","1",".","1","\r","\n","C","o","n","n","e","c","t","i","o","n",":"," ","c","l","o","s","e","\r","\n","\r","\n">>
Malformed == <<"G","E","T"," ","/","\r","\n">>
HugeChunk == <<"P","O","S","T"," ","/","u"," ","H","T","T","P","/","1",".","1","\r","\n","T","r","a","n","s","f","e","r","-","E","n","c","o","d","i","n","g",":"," ","c","h","u","n","k","e","d","\r","\n","\r","\n","A","0","0","0","0","1","\r","\n">>
ExpectPost == <<"P","U","T"," ","/","e"," ","H","T","T","P","/","1",".","1","\r","\n","E","x","p","e","c","t",":"," ","1","0","0","-","c","o","n","t","i","n","u","e","\r","\n","C","o","n","t","e","n","t","-","L","e","n","g","t","h",":"," ","1","\r","\n","\r","\n","x">>

PostChunked ==
    <<"P","O","S","T"," ","/","c"," ","H","T","T","P","/","1",".","1","\r","\n","T","r","a","n","s","f","e","r","-","E","n","c","o","d","i","n","g",":"," ","c","h","u","n","k","e","d","\r","\n","\r","\n","2","\r","\n","h","i","\r","\n","0","\r","\n","\r","\n">>
Truncated == <<"P","O","S","T"," ","/","t"," ","H","T","T","P","/","1",".","1","\r","\n","C","o","n","t","e","n","t","-","L","e","n","g","t","h",":"," ","5","\r","\n","\r","\n","a","b">>

BothLengthFirst ==
    <<"P","O","S","T"," ","/","b"," ","H","T","T","P","/","1",".","1","\r","\n","c","o","n","t","e","n","t","-","l","e","n","g","t","h",":"," ","2","\r","\n","T","R","A","N","S","F","E","R","-","E","N","C","O","D","I","N","G",":"," ","C","h","u","n","k","e","d","\r","\n","\r","\n","a","b">>
BothChunkedFirst ==
    <<"P","O","S","T"," ","/","b"," ","H","T","T","P","/","1",".","1","\r","\n","T","r","a","n","s","f","e","r","-","E","n","c","o","d","i","n","g",":"," ","c","h","u","n","k","e","d","\r","\n","C","o","n","t","e","n","t","-","L","e","n","g","t","h",":"," ","1","0","\r","\n","\r","\n">>

Get10KeepAlive == <<"G","E","T"," ","/"," ","H","T","T","P","/","1",".","0","\r","\n","C","o","n","n","e","c","t","i","o","n",":"," ","k","e","e","p","-","a","l","i","v","e","\r","\n","\r","\n">>
Get10Upgrade == <<"G","E","T"," ","/"," ","H","T","T","P","/","1",".","0","\r","\n","C","o","n","n","e","c","t","i","o","n",":"," ","u","p","g","r","a","d","e","\r","\n","\r","\n">>

Catalogue ==
    <<SimpleGet, PostLength, Get10, GetClose, Malformed, HugeChunk, ExpectPost,
      PostChunked, Truncated, BothLengthFirst, BothChunkedFirst, Get10KeepAlive,
      Get10Upgrade>>
\* the streams of the catalogue that are one complete, valid request
WellFormed == {1, 2, 3, 4, 7, 8, 12, 13}

MaxRequests == 2
SegLen == 20
TightHeaderBytes == 60

Configs == {DefaultConfig, [DefaultConfig EXCEPT !.MaxHeaderBytes = TightHeaderBytes]}

(***************************************************************************)
(* State.                                                                  *)
(***************************************************************************)
NoParse == Parsing(newParser(0), NewRequest, "none", "nil")
NoCall == [op |-> "none", state |-> "stateStart", finished |-> FALSE, err |-> "nil",
           appended |-> 0, count |-> 0, complete |-> FALSE, ops |-> <<>>, data |-> <<>>]
NewConn(cfg) ==
    [pc |-> "accepted", config |-> cfg, shuttingDown |-> FALSE, requestCount |-> 0,
     readDeadline |-> "none", hijacked |-> FALSE, closed |-> FALSE]
NewNet == [inbound |-> <<>>, out |-> <<>>, peerClosed |-> FALSE, broken |-> FALSE]
\* history: the parses the handler was invoked with; what the last reader.Read
\* returned; the status of the error response the loop wrote (0: none); whether
\* shutdown had been raised when the request now served was parsed; whether w is
\* the writer of a request the handler has served, and the loop's decision after
\* it; the last call made on a writer driven directly; whether the handler of
\* the request served panicked; whether bytes were written to the writer of a
\* request after reader.Read had returned for a later one
NewHist ==
    [handled |-> <<>>, event |-> "none", errStatus |-> 0, signalAtServe |-> FALSE,
     served |-> FALSE, decision |-> "none", call |-> NoCall, abort |-> "none",
     late |-> FALSE]
\* no goroutine left behind: calls are the calls it has still to make, w the
\* writer of its request, request the number of that request on the connection
NoInner == [calls |-> <<>>, w |-> NewWriter, request |-> 0]

\* NewMetrics, and no RateLimiter yet.  metrics: the atomic counters (the
\* latency sum and the connection gauge are left out); recording: per task the
\* position in its RecordRequest call and the status code it was given;
\* started, recorded: the RecordRequest calls begun and returned; snapshot:
\* the position of the Snapshot call, the values it has loaded, and whether it
\* has returned them; rate, buckets: the RateLimiter (rate -1: none created);
\* allowed: per IP the Allow calls answered true since its bucket was last
\* reset; allows: the Allow calls made
NewServer ==
    [metrics |-> [RequestsTotal |-> 0, ErrorsTotal |-> 0, Errors4xx |-> 0, Errors5xx |-> 0],
     recording |-> <<[pc |-> "idle", statusCode |-> 0], [pc |-> "idle", statusCode |-> 0]>>,
     started |-> 0, recorded |-> 0,
     snapshot |-> [pc |-> "idle", RequestsTotal |-> 0, ErrorsTotal |-> 0, Errors4xx |-> 0,
                   Errors5xx |-> 0, returned |-> FALSE],
     rate |-> -1, buckets |-> <<>>, allowed |-> <<>>, allows |-> 0]

Init ==
    /\ shutdown = FALSE
    /\ \E cfg \in Configs : conn = NewConn(cfg)
    /\ parser = NoParse
    /\ w = NewWriter
    /\ net = NewNet
    /\ client = [pending |-> <<>>, sent |-> <<>>]
    /\ hist = NewHist
    /\ inner = NoInner
    /\ shutdownPc = "idle"
    /\ srv = NewServer

\* handleConnection returns: the deferred conn.Close() runs
Return(c) == [c EXCEPT !.pc = "returned", !.closed = TRUE]

\* the head of the for loop up to the reader.Read of the next request's parse:
\* [conn, parser]
LoopHead(c) ==
    IF c.requestCount < maxRequestsPerConn
    THEN [conn |-> [c EXCEPT !.requestCount = @ + 1, !.pc = "read",
                             !.readDeadline =
                                 IF c.config.ReadTimeout > 0 THEN "ReadTimeout" ELSE @],
          parser |-> RequestFromReaderWithConfig(c.config.MaxHeaderBytes,
                                                 c.config.MaxRequestBodySize)]
    ELSE [conn |-> Return(c), parser |-> parser]

\* serve after Accept: wg.Add(1) and the goroutine of Server.handleConn, which
\* reads the flag once; then handleConnection runs to its first read
HandleConn ==
    /\ conn.pc = "accepted"
    /\ LET Entered(lh) == conn' = lh.conn /\ parser' = lh.parser
       IN  Entered(LoopHead([conn EXCEPT !.shuttingDown = shutdown,
                                         !.readDeadline =
                                             IF conn.config.ReadTimeout > 0
                                             THEN "ReadTimeout" ELSE @]))
    /\ UNCHANGED <<shutdown, w, net, client, hist, inner, shutdownPc, srv>>

\* what reader.Read has just returned, for the history
ReadEvent(data, rerr) ==
    LET idle == parser.p.state = "stateRequestLine" /\ parser.p.buffer = <<>>
    IN  IF data # <<>> THEN "data"
        ELSE IF rerr = "io.EOF" THEN (IF idle THEN "cleanEOF" ELSE "midEOF")
        ELSE (IF idle THEN "idleTimeout" ELSE "midTimeout")

\* handleConnection from the return of reader.Read inside the parse to the next
\* reader.Read, to the call of the handler, or to its return
AfterReaderRead(data, rerr, inbound, ord) ==
    LET ev == ReadEvent(data, rerr)
        fresh == ConnSink([net EXCEPT !.out = <<>>])
        staged == IF conn.shuttingDown
                  THEN Set(NewHeaders, <<"C","o","n","n","e","c","t","i","o","n">>, <<"c","l","o","s","e">>) ELSE NewHeaders
        Answered(code, er) ==
            /\ conn' = Return(conn)
            /\ net' = [net EXCEPT !.inbound = inbound, !.out = er.t.out]
            /\ hist' = [hist EXCEPT !.event = ev, !.errStatus = code, !.served = FALSE]
            /\ w' = er.w
        Failed(code) ==
            IF code = 0
            THEN /\ conn' = Return(conn)
                 /\ net' = [net EXCEPT !.inbound = inbound]
                 /\ hist' = [hist EXCEPT !.event = ev]
                 /\ w' = w
            ELSE Answered(code, ErrorResponse(NewWriter, fresh, code,
                                              ParseErrorMessage(code), ord))
        Serve(out) ==
            /\ conn' = [conn EXCEPT !.pc = "handler"]
            /\ net' = [net EXCEPT !.inbound = inbound, !.out = out]
            /\ hist' = [hist EXCEPT !.event = ev, !.served = FALSE,
                                    !.decision = "none", !.signalAtServe = shutdown]
            /\ w' = [NewWriter EXCEPT !.headers = staged]
        Continued(cr) ==
            IF cr.err # "nil"
            THEN /\ conn' = Return(conn)
                 /\ net' = [net EXCEPT !.inbound = inbound, !.out = cr.t.out]
                 /\ hist' = [hist EXCEPT !.event = ev, !.served = FALSE]
                 /\ w' = cr.w
            ELSE Serve(cr.t.out)
        Expect(expectHeader) ==
            IF expectHeader.ok /\ expectHeader.value = <<"1","0","0","-","c","o","n","t","i","n","u","e">>
            THEN Continued(ContinueResponse(NewWriter, fresh))
            ELSE Serve(<<>>)
        Parsed(ps) ==
            /\ parser' = ps
            /\ IF ps.at = "read"
               THEN /\ conn' = conn
                    /\ net' = [net EXCEPT !.inbound = inbound]
                    /\ hist' = [hist EXCEPT !.event = ev]
                    /\ w' = w
               ELSE IF ps.at = "err" THEN Failed(ParseErrorStatus(ps.err))
               ELSE Expect(Get(ps.req.Headers, <<"e","x","p","e","c","t">>))
    IN  /\ Parsed(AfterRead(parser.p, parser.req,
                            EffectiveMaxHeaderBytes(conn.config.MaxHeaderBytes), data, rerr))
        /\ UNCHANGED <<shutdown, client, inner, shutdownPc, srv>>

\* reader.Read returns the bytes that have arrived, at most len(readBuf)
Read ==
    /\ conn.pc = "read"
    /\ net.inbound # <<>>
    /\ LET n == Min2(Len(net.inbound), readBufSize)
       IN  \E ord \in KeyOrders(TextHeaders(<<>>)) :
             AfterReaderRead(Slice(net.inbound, 0, n), "nil", From(net.inbound, n), ord)

\* reader.Read returns io.EOF: the peer has closed and nothing is left to read
ReadEOF ==
    /\ conn.pc = "read"
    /\ net.inbound = <<>>
    /\ net.peerClosed
    /\ \E ord \in KeyOrders(TextHeaders(<<>>)) :
         AfterReaderRead(<<>>, "io.EOF", <<>>, ord)

\* reader.Read returns a timeout: the read deadline passes with nothing to read
ReadTimeout ==
    /\ conn.pc = "read"
    /\ net.inbound = <<>>
    /\ ~net.peerClosed
    /\ conn.readDeadline # "none"
    /\ \E ord \in KeyOrders(TextHeaders(<<>>)) :
         AfterReaderRead(<<>>, "net.TimeoutError", <<>>, ord)

\* handleConnection after handler.ServeHTTP(ctx) has left r, up to the next
\* reader.Read or to its return.  A panic no recover() caught unwinds
\* handleConnection: only the deferred conn.Close() runs.
AfterServeHTTP(r) ==
    LET Reused(lh) == conn' = lh.conn /\ parser' = lh.parser
        unwound == r.abort # "none" /\ ~r.recovered
        Decided(keep) ==
            /\ w' = r.w
            /\ net' = [net EXCEPT !.out = r.t.out]
            /\ hist' = [hist EXCEPT !.handled = Append(@, parser), !.served = TRUE,
                                    !.abort = r.abort,
                                    !.decision = IF unwound THEN "panic"
                                                 ELSE IF r.hijacked THEN "none"
                                                 ELSE IF keep THEN "reuse"
                                                 ELSE "close"]
            /\ IF unwound \/ r.hijacked \/ ~keep
               THEN /\ conn' = Return([conn EXCEPT !.hijacked = r.hijacked])
                    /\ parser' = parser
               ELSE Reused(LoopHead([conn EXCEPT !.readDeadline =
                                                  IF conn.config.IdleTimeout > 0
                                                  THEN "IdleTimeout" ELSE @]))
    IN  Decided(shouldKeepAlive(parser.req, r.w, conn.shuttingDown))

\* handler.ServeHTTP(ctx) and the rest of the loop body
Handle ==
    /\ conn.pc = "handler"
    /\ \E prog \in HandlerPrograms :
       \E ord \in ProgramOrders(w, ConnSink(net), prog) :
         AfterServeHTTP(ServeHTTP(w, ConnSink(net), prog, ord))
    /\ UNCHANGED <<shutdown, client, inner, shutdownPc, srv>>

\* Server.Shutdown up to its select: the flag is raised, the context cancelled,
\* the listener closed
Shutdown ==
    /\ ~shutdown
    /\ shutdown' = TRUE
    /\ shutdownPc' = "waiting"
    /\ UNCHANGED <<conn, parser, w, net, client, hist, inner, srv>>

\* the peer sends request r of the catalogue, whole or its first SegLen bytes
ClientSend ==
    /\ ~net.peerClosed
    /\ client.pending = <<>>
    /\ Len(client.sent) < MaxRequests
    /\ \E r \in 1..Len(Catalogue) :
       \E k \in {Len(Catalogue[r]), Min2(SegLen, Len(Catalogue[r]))} :
         /\ net' = [net EXCEPT !.inbound = @ \o Slice(Catalogue[r], 0, k)]
         /\ client' = [pending |-> From(Catalogue[r], k), sent |-> Append(client.sent, r)]
    /\ UNCHANGED <<shutdown, conn, parser, w, hist, inner, shutdownPc, srv>>

\* the peer sends the rest of the request it has begun
ClientFlush ==
    /\ ~net.peerClosed
    /\ client.pending # <<>>
    /\ net' = [net EXCEPT !.inbound = @ \o client.pending]
    /\ client' = [client EXCEPT !.pending = <<>>]
    /\ UNCHANGED <<shutdown, conn, parser, w, hist, inner, shutdownPc, srv>>

\* the peer closes its side
ClientClose ==
    /\ ~net.peerClosed
    /\ net' = [net EXCEPT !.peerClosed = TRUE]
    /\ client' = [client EXCEPT !.pending = <<>>]
    /\ UNCHANGED <<shutdown, conn, parser, w, hist, inner, shutdownPc, srv>>

\* the transport breaks: every later write on it fails
PeerReset ==
    /\ ~net.broken
    /\ net' = [net EXCEPT !.broken = TRUE]
    /\ UNCHANGED <<shutdown, conn, parser, w, client, hist, inner, shutdownPc, srv>>

Next ==
    \/ HandleConn
    \/ Read
    \/ ReadEOF
    \/ ReadTimeout
    \/ Handle
    \/ Shutdown
    \/ ClientSend
    \/ ClientFlush
    \/ ClientClose
    \/ PeerReset

Spec == Init /\ [][Next]_vars

(***************************************************************************)
(* The parser alone (SpecParse): one stream of the catalogue, delivered to *)
(* parseFromReader in segments of every size.                              *)
(***************************************************************************)
\* parseFromReader over a reader whose first Read delivers the whole stream and
\* whose next Read returns io.EOF
SingleRead(stream, maxHeaderBytes, maxBodySize) ==
    LET Ended(ps) ==
            IF ps.at = "read"
            THEN AfterRead(ps.p, ps.req, EffectiveMaxHeaderBytes(maxHeaderBytes), <<>>, "io.EOF")
            ELSE ps
        Started(ps) ==
            IF ps.at = "read"
            THEN Ended(AfterRead(ps.p, ps.req, EffectiveMaxHeaderBytes(maxHeaderBytes),
                                 stream, "nil"))
            ELSE ps
    IN  Started(RequestFromReaderWithConfig(maxHeaderBytes, maxBodySize))

\* what RequestFromReaderWithConfig returns: (req, nil), or (nil, err) with the
\* request dropped
Returned(ps) == [req |-> IF ps.err = "nil" THEN ps.req ELSE NewRequest, err |-> ps.err]

TightBodySize == 12

\* the configurations parsed under: those of the connection loop, and, for the
\* two complete requests with a body, body limits at and next to the body sizes
ParseConfigs ==
    Configs \cup {[DefaultConfig EXCEPT !.MaxRequestBodySize = n] :
                     n \in {1, 2, TightBodySize, TightBodySize + 1}}

\* streams parsed besides the catalogue: a second Host line; a second
\* Content-Length with the same and with another value; a second
\* Transfer-Encoding line; Transfer-Encoding: Chunked in another letter case; a
\* chunked body without its terminating chunk; a stream that ends in the request
\* line; a stream that ends in a header line; a chunked body of two chunks with
\* a trailer; a chunk followed by a byte more than it declared; a body of
\* Content-Length: 2 followed by the first bytes of the next request
ExtraStreams ==
    <<<<"G","E","T"," ","/"," ","H","T","T","P","/","1",".","1","\r","\n","H","o","s","t",":"," ","a","\r","\n","H","o","s","t",":"," ","b","\r","\n","\r","\n">>,
      <<"P","O","S","T"," ","/","d"," ","H","T","T","P","/","1",".","1","\r","\n","C","o","n","t","e","n","t","-","L","e","n","g","t","h",":"," ","2","\r","\n","C","o","n","t","e","n","t","-","L","e","n","g","t","h",":"," ","2","\r","\n","\r","\n","a","b">>,
      <<"P","O","S","T"," ","/","d"," ","H","T","T","P","/","1",".","1","\r","\n","C","o","n","t","e","n","t","-","L","e","n","g","t","h",":"," ","2","\r","\n","C","o","n","t","e","n","t","-","L","e","n","g","t","h",":"," ","3","\r","\n","\r","\n","a","b","c">>,
      <<"P","O","S","T"," ","/","d"," ","H","T","T","P","/","1",".","1","\r","\n","T","r","a","n","s","f","e","r","-","E","n","c","o","d","i","n","g",":"," ","c","h","u","n","k","e","d","\r","\n","T","r","a","n","s","f","e","r","-","E","n","c","o","d","i","n","g",":"," ","c","h","u","n","k","e","d","\r","\n","\r","\n","0","\r","\n","\r","\n">>,
      <<"P","O","S","T"," ","/","c"," ","H","T","T","P","/","1",".","1","\r","\n","T","r","a","n","s","f","e","r","-","E","n","c","o","d","i","n","g",":"," ","C","h","u","n","k","e","d","\r","\n","\r","\n","2","\r","\n","h","i","\r","\n","0","\r","\n","\r","\n">>,
      <<"P","O","S","T"," ","/","c"," ","H","T","T","P","/","1",".","1","\r","\n","T","r","a","n","s","f","e","r","-","E","n","c","o","d","i","n","g",":"," ","c","h","u","n","k","e","d","\r","\n","\r","\n","2","\r","\n","h","i","\r","\n">>,
      <<"G","E","T"," ","/","i","n","d","e","x",".","h">>,
      <<"G","E","T"," ","/"," ","H","T","T","P","/","1",".","1","\r","\n","H","o","s","t",":"," ","e","x","a">>,
      <<"P","O","S","T"," ","/","c"," ","H","T","T","P","/","1",".","1","\r","\n","T","r","a","n","s","f","e","r","-","E","n","c","o","d","i","n","g",":"," ","c","h","u","n","k","e","d","\r","\n","\r","\n","2","\r","\n","h","i","\r","\n","3","\r","\n","y","o","u","\r","\n","0","\r","\n","X",":"," ","y","\r","\n","\r","\n">>,
      <<"P","O","S","T"," ","/","c"," ","H","T","T","P","/","1",".","1","\r","\n","T","r","a","n","s","f","e","r","-","E","n","c","o","d","i","n","g",":"," ","c","h","u","n","k","e","d","\r","\n","\r","\n","2","\r","\n","h","i","!","\r","\n","0","\r","\n","\r","\n">>,
      <<"P","O","S","T"," ","/","d"," ","H","T","T","P","/","1",".","1","\r","\n","C","o","n","t","e","n","t","-","L","e","n","g","t","h",":"," ","2","\r","\n","\r","\n","a","b","G","E","T"," ","/">>>>
ParseStreams == Catalogue \o ExtraStreams

ParseInit ==
    /\ shutdown = FALSE
    /\ \E cfg \in ParseConfigs : \E r \in 1..Len(ParseStreams) :
         /\ cfg \notin Configs => ParseStreams[r] \in {PostLength, PostChunked}
         /\ conn = [NewConn(cfg) EXCEPT !.pc = "read", !.requestCount = 1]
         /\ parser = RequestFromReaderWithConfig(cfg.MaxHeaderBytes, cfg.MaxRequestBodySize)
         /\ net = [NewNet EXCEPT !.inbound = ParseStreams[r]]
         /\ client = [pending |-> <<>>, sent |-> <<r>>]
    /\ w = NewWriter
    /\ hist = NewHist
    /\ inner = NoInner
    /\ shutdownPc = "idle"
    /\ srv = NewServer

\* reader.Read returns the next n bytes of the stream
ReadSegment ==
    /\ parser.at = "read"
    /\ net.inbound # <<>>
    /\ \E n \in 1..Min2(Len(net.inbound), readBufSize) :
         /\ parser' = AfterRead(parser.p, parser.req,
                                EffectiveMaxHeaderBytes(conn.config.MaxHeaderBytes),
                                Slice(net.inbound, 0, n), "nil")
         /\ net' = [net EXCEPT !.inbound = From(@, n)]
    /\ UNCHANGED <<shutdown, conn, w, client, hist, inner, shutdownPc, srv>>

\* reader.Read returns io.EOF: the stream is exhausted
ReadEnd ==
    /\ parser.at = "read"
    /\ net.inbound = <<>>
    /\ parser' = AfterRead(parser.p, parser.req,
                           EffectiveMaxHeaderBytes(conn.config.MaxHeaderBytes),
                           <<>>, "io.EOF")
    /\ UNCHANGED <<shutdown, conn, w, net, client, hist, inner, shutdownPc, srv>>

ParseNext ==
    \/ ReadSegment
    \/ ReadEnd

SpecParse == ParseInit /\ [][ParseNext]_vars

(***************************************************************************)
(* The writer alone (SpecWriter): every sequence of at most MaxCalls calls *)
(* on one writer over one sink.                                            *)
(***************************************************************************)
MaxCalls == 4

TrailerHeaders == Set(NewHeaders, <<"X","-","C","h","e","c","k","s","u","m">>, <<"a","b","c">>)

WriterInit ==
    /\ shutdown = FALSE
    /\ conn = NewConn(DefaultConfig)
    /\ parser = NoParse
    /\ w = NewWriter
    /\ net = NewNet
    /\ client = [pending |-> <<>>, sent |-> <<>>]
    /\ hist = NewHist
    /\ inner = NoInner
    /\ shutdownPc = "idle"
    /\ srv = NewServer

\* a call on the writer, made with the payload data, returns r: the history keeps
\* the call, the state it was made in, whether a body or a chunked stream had
\* been completed before it, the error it returned, the number of bytes it added
\* to the sink, the calls that have returned nil and the payload they were given
Called(op, data, r) ==
    /\ hist.call.count < MaxCalls
    /\ w' = r.w
    /\ net' = [net EXCEPT !.out = r.t.out]
    /\ hist' = [hist EXCEPT !.call =
                   [op |-> op, state |-> w.state, finished |-> @.complete, err |-> r.err,
                    appended |-> Len(r.t.out) - Len(net.out), count |-> @.count + 1,
                    complete |-> @.complete
                                 \/ (op \in {"WriteBody", "FinishChunked"} /\ r.err = "nil"),
                    ops |-> IF r.err = "nil" THEN Append(@.ops, op) ELSE @.ops,
                    data |-> IF r.err = "nil" THEN @.data \o data ELSE @.data]]
    /\ UNCHANGED <<shutdown, conn, parser, client, inner, shutdownPc, srv>>

CallWriteStatusLine ==
    \E code \in {StatusOK, StatusNoContent} :
        Called("WriteStatusLine", <<>>, WriteStatusLine(w, ConnSink(net), code))

CallWriteHeaders ==
    \E h \in {NewHeaders, TextHeaders(OkBody), ChunkedHeaders} :
    \E ord \in KeyOrders(h) :
        Called("WriteHeaders", <<>>, WriteHeaders(w, ConnSink(net), h, ord))

CallWriteBody ==
    \E data \in {<<>>, OkBody} : Called("WriteBody", data, WriteBody(w, ConnSink(net), data))

CallWriteChunk ==
    \E data \in {<<>>, OkBody, <<"H","e","l","l","o",","," ","W","o","r","l","d","!">>} :
        Called("WriteChunk", data, WriteChunk(w, ConnSink(net), data))

CallFinishChunked == Called("FinishChunked", <<>>, FinishChunked(w, ConnSink(net)))

CallWriteTrailers ==
    \E h \in {NewHeaders, TrailerHeaders} :
    \E ord \in KeyOrders(h) :
        Called("WriteTrailers", <<>>, WriteTrailers(w, ConnSink(net), h, ord))

WriterNext ==
    \/ CallWriteStatusLine
    \/ CallWriteHeaders
    \/ CallWriteBody
    \/ CallWriteChunk
    \/ CallFinishChunked
    \/ CallWriteTrailers
    \/ PeerReset

SpecWriter == WriterInit /\ [][WriterNext]_vars

(***************************************************************************)
(* Properties.                                                             *)
(***************************************************************************)

\* C1 (keep-alive sequence): whenever the loop waits for a next request with an
\* empty parser, the peer has its side open, every byte it sent has been read and
\* every request it sent was complete and well-formed, the handler has been
\* invoked once for each request sent, in send order: no byte of a request is
\* lost between the end of one parse and the start of the next.
C1_KeepAliveSequence ==
    (/\ conn.pc = "read"
     /\ parser.p.state = "stateRequestLine"
     /\ parser.p.buffer = <<>>
     /\ net.inbound = <<>>
     /\ client.pending = <<>>
     /\ ~net.peerClosed
     /\ \A i \in 1..Len(client.sent) : client.sent[i] \in WellFormed)
    => /\ Len(hist.handled) = Len(client.sent)
       /\ \A i \in 1..Len(client.sent) :
            hist.handled[i].req =
                SingleRead(Catalogue[client.sent[i]], DefaultConfig.MaxHeaderBytes,
                           DefaultConfig.MaxRequestBodySize).req

\* C2 (P3, incremental parsing): however the stream is split into reads, the
\* parser returns the Request, or the error, that it returns when the whole
\* stream arrives in a single read.
C2_SegmentationIndependent ==
    parser.at \in {"done", "err"}
    => Returned(parser) =
           Returned(SingleRead(ParseStreams[client.sent[1]], conn.config.MaxHeaderBytes,
                               conn.config.MaxRequestBodySize))

\* C3 (P7, keep-alive soundness): whenever the decision after a handled request
\* is to reuse the connection, the response written for it declared a
\* Content-Length or chunked transfer encoding, and the writer reported no error.
C3_KeepAliveSoundness ==
    (hist.served /\ hist.decision = "reuse")
    => (HasContentLength(w) \/ w.isChunked) /\ ~HadError(w)

\* C4 (global shutdown reaches every loop): a request parsed after the shutdown
\* signal was raised is the last one its connection loop serves, whether the
\* connection was accepted before or after the signal.
C4_ShutdownReachesLoop ==
    (hist.served /\ hist.signalAtServe) => hist.decision # "reuse"

\* C5 (Connection: close is emitted): when the loop serves a request while
\* shuttingDown is true and the handler has written the response headers without
\* a write error, the header line Connection: close is among the response bytes,
\* whichever writer operations the handler used.
C5_ConnectionCloseEmitted ==
    (/\ hist.served
     /\ conn.shuttingDown
     /\ w.state \in {"stateHeadersWritten", "stateBodyWritten"}
     /\ ~HadError(w))
    => Index(net.out, <<"c","o","n","n","e","c","t","i","o","n",":"," ","c","l","o","s","e","\r","\n">>) # -1

\* C6 (P6, writer phase discipline): a writer call made out of order (status
\* line outside Start, headers outside StatusWritten, body outside
\* HeadersWritten, so also a second body, a chunk or the finisher before the
\* headers or after the body or the stream was completed, trailers outside
\* BodyWritten) returns an error and adds no bytes to the sink.
C6_WriterPhaseDiscipline ==
    (\/ hist.call.op = "WriteStatusLine" /\ hist.call.state # "stateStart"
     \/ hist.call.op = "WriteHeaders" /\ hist.call.state # "stateStatusWritten"
     \/ hist.call.op = "WriteBody" /\ hist.call.state # "stateHeadersWritten"
     \/ /\ hist.call.op \in {"WriteChunk", "FinishChunked"}
        /\ (hist.call.state \notin {"stateHeadersWritten", "stateBodyWritten"}
            \/ hist.call.finished)
     \/ hist.call.op = "WriteTrailers" /\ hist.call.state # "stateBodyWritten")
    => hist.call.err # "nil" /\ hist.call.appended = 0

\* C7 (the handler sees only parsed requests): the handler is invoked only when
\* the parse returned no error with the parser in Done; every Request it was
\* invoked with is complete (valid method, path and version, and the whole body
\* its Content-Length or its chunked encoding declares); and a loop iteration
\* whose parse failed ends the loop without a handler invocation.
C7_HandlerOnlyParsed ==
    /\ conn.pc = "handler"
       => parser.at = "done" /\ parser.err = "nil" /\ parser.p.state = "stateDone"
    /\ \A i \in 1..Len(hist.handled) :
         /\ hist.handled[i].at = "done"
         /\ hist.handled[i].err = "nil"
         /\ hist.handled[i].p.state = "stateDone"
         /\ isValidMethod(hist.handled[i].req.Method)
         /\ isValidPath(hist.handled[i].req.Path)
         /\ isValidVersion(hist.handled[i].req.Version)
         /\ (~IsChunked(hist.handled[i].req) /\ ContentLength(hist.handled[i].req) > 0)
            => Len(hist.handled[i].req.Body) = ContentLength(hist.handled[i].req)
         /\ IsChunked(hist.handled[i].req)
            => hist.handled[i].p.chunkParser.state = "chunkStateDone"
    /\ parser.at = "err"
       => conn.pc = "returned" /\ Len(hist.handled) = conn.requestCount - 1
    /\ Len(hist.handled) <= conn.requestCount

\* a request was handled, and the next parse on the connection failed
C7_Witness ==
    /\ Len(hist.handled) = 1
    /\ Len(hist.handled[1].req.Body) > 0
    /\ parser.at = "err"
    /\ conn.pc = "returned"

\* C8 (parse failures are answered): a parse failure that is neither a clean EOF
\* nor an idle timeout is answered with 413 when it is a size-limit error (header
\* bytes, header-line count, request-line length, URI length, body size, chunk
\* size) and with 400 otherwise, and the loop ends.
C8_ParseErrorStatus ==
    (parser.at = "err" /\ hist.event \notin {"cleanEOF", "idleTimeout"})
    => /\ conn.pc = "returned"
       /\ hist.errStatus =
              IF parser.err \in {"request.ErrHeaderTooLarge", "headers.ErrHeaderTooLarge",
                                 "request.ErrTooManyHeaders", "headers.ErrTooManyHeaders",
                                 "ErrRequestLineTooLarge", "ErrURITooLong",
                                 "ErrBodyTooLarge", "ErrChunkTooLarge"}
              THEN StatusRequestEntityTooLarge ELSE StatusBadRequest

\* C9 (clean EOF): when the peer closes a persistent connection between requests
\* (after a handled request, EOF is read with the parser at the start of
\* RequestLine and an empty buffer), the loop ends and has written no error
\* response.
C9_CleanEOFSilent ==
    (hist.event = "cleanEOF" /\ Len(hist.handled) >= 1)
    => conn.pc = "returned" /\ hist.errStatus = 0

\* C10 (idle timeout): when the read deadline passes with the parser at the
\* start of RequestLine and an empty buffer, the loop ends and has written no
\* error response.
C10_IdleTimeoutSilent ==
    hist.event = "idleTimeout" => conn.pc = "returned" /\ hist.errStatus = 0

(***************************************************************************)
(* The connection loop with handlers that fail or overrun (SpecFaults):    *)
(* panics, RecoveryMiddleware and TimeoutMiddleware of                     *)
(* internal/server/README.md, and Server.Shutdown to its return.  The peer *)
(* sends whole requests that parse.                                        *)
(***************************************************************************)
SmallCap == 1

FaultInit ==
    /\ shutdown = FALSE
    /\ \E cfg \in {DefaultConfig, [DefaultConfig EXCEPT !.MaxRequestsPerConn = SmallCap]} :
         conn = NewConn(cfg)
    /\ parser = NoParse
    /\ w = NewWriter
    /\ net = NewNet
    /\ client = [pending |-> <<>>, sent |-> <<>>]
    /\ hist = NewHist
    /\ inner = NoInner
    /\ shutdownPc = "idle"
    /\ srv = NewServer

\* the peer sends one whole request
ClientSendWhole ==
    /\ ~net.peerClosed
    /\ Len(client.sent) < MaxRequests
    /\ \E r \in {1, 3, 4, 12} :
         /\ net' = [net EXCEPT !.inbound = @ \o Catalogue[r]]
         /\ client' = [client EXCEPT !.sent = Append(@, r)]
    /\ UNCHANGED <<shutdown, conn, parser, w, hist, inner, shutdownPc, srv>>

\* handler.ServeHTTP(ctx) of TimeoutMiddleware(timeout)(next) when the timer
\* fires first: the goroutine running next has made k of its calls, the
\* middleware calls ctx.Error(408, "Request timeout") and returns, and the
\* goroutine goes on with the same ctx.  (At most one such goroutine at a time.)
\* Nothing orders the goroutine's accesses to the Writer with the middleware's:
\* the state test of the goroutine's next call reads w.state either as the k
\* calls left it (early: the test came before the 408) or as
\* ctx.Error left it.
HandleTimeout ==
    /\ conn.pc = "handler"
    /\ inner.calls = <<>>
    /\ \E prog \in TimeoutPrograms : \E k \in 0..(Len(prog) - 1) :
       \E ord \in KeyOrders(TextHeaders(<<>>)) : \E early \in BOOLEAN :
         LET TimedOut(r, e) == [r EXCEPT !.w = e.w, !.t = e.t]
             Fired(r) ==
                 TimedOut(r, ErrorResponse(r.w, r.t, StatusRequestTimeout,
                                           <<"R","e","q","u","e","s","t"," ","t","i","m","e","o","u","t">>, ord))
             Left(r, state) ==
                 /\ AfterServeHTTP(r)
                 /\ inner' = [calls |-> SubSeq(prog, k + 1, Len(prog)),
                              w |-> IF early THEN [r.w EXCEPT !.state = state] ELSE r.w,
                              request |-> conn.requestCount]
             Timer(r) == Left(Fired(r), r.w.state)
         IN  Timer(ServeHTTP(w, ConnSink(net), SubSeq(prog, 1, k), ord))
    /\ UNCHANGED <<shutdown, client, shutdownPc, srv>>

\* handler.ServeHTTP(ctx) of a handler that panics, bare or under
\* RecoveryMiddleware
HandlePanic ==
    /\ conn.pc = "handler"
    /\ \E prog \in PanicPrograms : \E recovery \in BOOLEAN :
       \E ord \in KeyOrders(TextHeaders(<<>>)) :
         AfterServeHTTP(IF recovery THEN RecoveryMiddleware(w, ConnSink(net), prog, ord)
                        ELSE ServeHTTP(w, ConnSink(net), prog, ord))
    /\ UNCHANGED <<shutdown, client, inner, shutdownPc, srv>>

\* the goroutine TimeoutMiddleware left behind makes its next call on the
\* writer of its request; a write on a closed transport fails
InnerCall ==
    /\ inner.calls # <<>>
    /\ \E ord \in KeyOrders(TextHeaders(<<>>)) :
         LET overtaken ==
                 /\ conn.requestCount > inner.request
                 /\ (parser.at # "read" \/ parser.p.totalBytesRead > 0)
             sink == [out |-> net.out,
                      budget |-> IF net.broken \/ conn.closed THEN 0 ELSE -1]
             Made(r) ==
                 /\ inner' = [inner EXCEPT !.calls = Tail(@), !.w = r.w]
                 /\ net' = [net EXCEPT !.out = r.t.out]
                 /\ hist' = [hist EXCEPT !.late =
                                 @ \/ (overtaken /\ Len(r.t.out) > Len(net.out))]
         IN  Made(RunCall(Running(inner.w, sink), Head(inner.calls), ord))
    /\ UNCHANGED <<shutdown, conn, parser, w, client, shutdownPc, srv>>

\* Server.Shutdown returns: case <-done, wg.Wait() has returned, which it does
\* when every handleConn has returned and also while serve stands between
\* Accept and wg.Add(1) for the connection; or case <-ctx.Done(), the caller's
\* deadline has expired
ShutdownReturn ==
    /\ shutdownPc = "waiting"
    /\ \/ conn.pc \in {"accepted", "returned"} /\ shutdownPc' = "returned nil"
       \/ shutdownPc' = "returned timeout"
    /\ UNCHANGED <<shutdown, conn, parser, w, net, client, hist, inner, srv>>

FaultNext ==
    \/ HandleConn
    \/ Read
    \/ ReadEOF
    \/ ReadTimeout
    \/ Handle
    \/ HandlePanic
    \/ HandleTimeout
    \/ InnerCall
    \/ Shutdown
    \/ ShutdownReturn
    \/ ClientSendWhole
    \/ ClientClose
    \/ PeerReset

SpecFaults == FaultInit /\ [][FaultNext]_vars

(***************************************************************************)
(* The header store alone (SpecStore): every sequence of at most MaxCalls  *)
(* calls of Set, Add and Parse on the store of one Writer, w.Headers(),    *)
(* with names in several letter cases.  The history keeps the last call.   *)
(***************************************************************************)
CallSet ==
    /\ hist.call.count < MaxCalls
    /\ \E key \in {<<"X","-","C","u","s","t","o","m">>, <<"x","-","c","u","s","t","o","m">>, <<"A","C","C","E","P","T">>} : \E value \in {<<"a">>, <<"b">>} :
         /\ w' = [w EXCEPT !.headers = Set(w.headers, key, value)]
         /\ hist' = [hist EXCEPT !.call = [op |-> "Set", count |-> @.count + 1,
                                           key |-> key, value |-> value]]
    /\ UNCHANGED <<shutdown, conn, parser, net, client, inner, shutdownPc, srv>>

CallAdd ==
    /\ hist.call.count < MaxCalls
    /\ \E key \in {<<"X","-","C","U","S","T","O","M">>, <<"x","-","c","u","s","t","o","m">>, <<"A","c","c","e","p","t">>} : \E value \in {<<"a">>, <<"c">>} :
         /\ w' = [w EXCEPT !.headers = Add(w.headers, key, value)]
         /\ hist' = [hist EXCEPT !.call = [op |-> "Add", count |-> @.count + 1,
                                           key |-> key, value |-> value]]
    /\ UNCHANGED <<shutdown, conn, parser, net, client, inner, shutdownPc, srv>>

\* Parse of one field line that the store accepts
CallParse ==
    /\ hist.call.count < MaxCalls
    /\ \E key \in {<<"X","-","C","u","s","t","o","m">>, <<"a","c","c","e","p","t">>, <<"A","c","c","e","P","T">>} : \E value \in {<<"b">>, <<"d">>} :
         /\ HeadersParse(w.headers, key \o <<":"," ">> \o value \o crlf).err = "nil"
         /\ w' = [w EXCEPT !.headers = HeadersParse(w.headers, key \o <<":"," ">> \o value \o crlf).h]
         /\ hist' = [hist EXCEPT !.call = [op |-> "Parse", count |-> @.count + 1,
                                           key |-> key, value |-> value]]
    /\ UNCHANGED <<shutdown, conn, parser, net, client, inner, shutdownPc, srv>>

StoreNext ==
    \/ CallSet
    \/ CallAdd
    \/ CallParse

SpecStore == WriterInit /\ [][StoreNext]_vars

(***************************************************************************)
(* Long header sections (SpecLines): a request of MaxHeaderLines short     *)
(* field lines and a request of one field line of a thousand bytes, each   *)
(* read line by line, byte by byte, or in any mixture of the two.          *)
(***************************************************************************)
LinesInit ==
    /\ shutdown = FALSE
    /\ conn = [NewConn(DefaultConfig) EXCEPT !.pc = "read", !.requestCount = 1]
    /\ parser = RequestFromReaderWithConfig(DefaultConfig.MaxHeaderBytes,
                                            DefaultConfig.MaxRequestBodySize)
    /\ LET RECURSIVE Repeat(_, _)
           Repeat(line, k) == IF k = 0 THEN <<>> ELSE line \o Repeat(line, k - 1)
       IN  \E fields \in {Repeat(<<"a",":","b","\r","\n">>, MaxHeaderLines),
                         <<"X","-","P","a","d","d","i","n","g",":"," ">> \o Repeat(<<"0","1","2","3","4","5","6","7","8","9">>, 100) \o crlf} :
               net = [NewNet EXCEPT !.inbound = <<"G","E","T"," ","/"," ","H","T","T","P","/","1",".","1","\r","\n">> \o fields \o crlf]
    /\ w = NewWriter
    /\ client = [pending |-> <<>>, sent |-> <<>>]
    /\ hist = NewHist
    /\ inner = NoInner
    /\ shutdownPc = "idle"
    /\ srv = NewServer

\* reader.Read returns one byte, or the bytes up to the end of the line
ReadPiece ==
    /\ parser.at = "read"
    /\ net.inbound # <<>>
    /\ \E n \in {1, Index(net.inbound, crlf) + 2} :
         /\ parser' = AfterRead(parser.p, parser.req,
                                EffectiveMaxHeaderBytes(conn.config.MaxHeaderBytes),
                                Slice(net.inbound, 0, n), "nil")
         /\ net' = [net EXCEPT !.inbound = From(@, n)]
    /\ UNCHANGED <<shutdown, conn, w, client, hist, inner, shutdownPc, srv>>

SpecLines == LinesInit /\ [][ReadPiece]_vars

(***************************************************************************)
(* What the connection tasks share (SpecShared): one Metrics, which two    *)
(* tasks record requests on while Snapshot is called, and one RateLimiter, *)
(* created with any small rate and asked for two IPs.                      *)
(***************************************************************************)
\* NewRateLimiter(rate, window)
NewRateLimiter ==
    /\ srv.rate = -1
    /\ \E rate \in 0..2 : srv' = [srv EXCEPT !.rate = rate]
    /\ UNCHANGED <<shutdown, conn, parser, w, net, client, hist, inner, shutdownPc>>

\* RateLimiter.Allow(ip), under rl.mu from its first statement to its last.  age:
\* "window" when now.Sub(b.lastReset) >= rl.window, "cleaned" when cleanup has
\* deleted the bucket (older than two windows) since the last call, "fresh"
\* otherwise
Allow ==
    /\ srv.rate >= 0
    /\ srv.allows < MaxCalls
    /\ \E ip \in {"10.0.0.1", "10.0.0.2"} : \E age \in {"fresh", "window", "cleaned"} :
         LET exists == ip \in DOMAIN srv.buckets /\ age # "cleaned"
             Answer(tokens, fromReset, ok) ==
                 srv' = [srv EXCEPT
                            !.buckets = (ip :> [tokens |-> tokens]) @@ @,
                            !.allowed = (ip :> IF fromReset THEN 1
                                               ELSE IF ok THEN srv.allowed[ip] + 1
                                               ELSE srv.allowed[ip]) @@ @,
                            !.allows = @ + 1]
         IN  IF ~exists THEN Answer(srv.rate - 1, TRUE, TRUE)
             ELSE IF age = "window" THEN Answer(srv.rate - 1, TRUE, TRUE)
             ELSE IF srv.buckets[ip].tokens > 0
             THEN Answer(srv.buckets[ip].tokens - 1, FALSE, TRUE)
             ELSE Answer(srv.buckets[ip].tokens, FALSE, FALSE)
    /\ UNCHANGED <<shutdown, conn, parser, w, net, client, hist, inner, shutdownPc>>

\* the next atomic operation of a task in Metrics.RecordRequest(statusCode, d)
RecordRequest ==
    /\ \E t \in DOMAIN srv.recording :
         LET at == srv.recording[t]
             Go(pc) == [srv.recording EXCEPT ![t].pc = pc]
         IN  IF at.pc = "idle"
             THEN /\ srv.started < MaxRequests
                  /\ \E statusCode \in {StatusOK, StatusBadRequest, StatusInternalServerError} :
                       srv' = [srv EXCEPT
                                  !.metrics.RequestsTotal = @ + 1,
                                  !.started = @ + 1,
                                  !.recording = [@ EXCEPT ![t] = [pc |-> "class",
                                                                 statusCode |-> statusCode]]]
             ELSE IF at.pc = "class"
             THEN IF at.statusCode >= 400 /\ at.statusCode < 500
                  THEN srv' = [srv EXCEPT !.metrics.Errors4xx = @ + 1,
                                          !.recorded = @ + 1, !.recording = Go("idle")]
                  ELSE IF at.statusCode >= 500
                  THEN srv' = [srv EXCEPT !.metrics.Errors5xx = @ + 1,
                                          !.recording = Go("total")]
                  ELSE srv' = [srv EXCEPT !.recorded = @ + 1, !.recording = Go("idle")]
             ELSE srv' = [srv EXCEPT !.metrics.ErrorsTotal = @ + 1,
                                     !.recorded = @ + 1, !.recording = Go("idle")]
    /\ UNCHANGED <<shutdown, conn, parser, w, net, client, hist, inner, shutdownPc>>

\* the next atomic load of Metrics.Snapshot(), in the order of the fields of the
\* struct literal it returns
Snapshot ==
    /\ srv' = [srv EXCEPT !.snapshot =
                   IF @.pc = "idle"
                   THEN [pc |-> "ErrorsTotal", RequestsTotal |-> srv.metrics.RequestsTotal,
                         ErrorsTotal |-> 0, Errors4xx |-> 0, Errors5xx |-> 0,
                         returned |-> FALSE]
                   ELSE IF @.pc = "ErrorsTotal"
                   THEN [@ EXCEPT !.pc = "Errors4xx", !.ErrorsTotal = srv.metrics.ErrorsTotal]
                   ELSE IF @.pc = "Errors4xx"
                   THEN [@ EXCEPT !.pc = "Errors5xx", !.Errors4xx = srv.metrics.Errors4xx]
                   ELSE [@ EXCEPT !.pc = "idle", !.Errors5xx = srv.metrics.Errors5xx,
                                  !.returned = TRUE]]
    /\ UNCHANGED <<shutdown, conn, parser, w, net, client, hist, inner, shutdownPc>>

SpecShared == WriterInit /\ [][NewRateLimiter \/ Allow \/ RecordRequest \/ Snapshot]_vars

(***************************************************************************)
(* Properties of the header store, the loop's exits and the writer's error *)
(* tracking.                                                               *)
(***************************************************************************)
HasBothFramings(h) ==
    LET Chunked(te) == te.ok /\ ToLower(TrimSpace(te.value)) = <<"c","h","u","n","k","e","d">>
    IN  Get(h, <<"c","o","n","t","e","n","t","-","l","e","n","g","t","h">>).ok /\ Chunked(Get(h, <<"t","r","a","n","s","f","e","r","-","e","n","c","o","d","i","n","g">>))

\* C11 (P5 framing exclusivity): a parse that returns a Request never returns
\* one whose headers hold both Content-Length and Transfer-Encoding: chunked;
\* a stream carrying both, in either order and any case of the names, never
\* yields a Request, and unless the header byte limit stops it first it fails
\* with ErrBothChunkedAndLength once every header line has been stored, i.e.
\* at the blank line.
C11_FramingExclusivity ==
    /\ parser.at = "done" => ~HasBothFramings(parser.req.Headers)
    /\ (parser.at \in {"done", "err"} /\ ParseStreams[client.sent[1]] \in {BothLengthFirst, BothChunkedFirst})
       => /\ parser.at = "err"
          /\ \/ parser.err = "request.ErrHeaderTooLarge"
             \/ /\ parser.err = "ErrBothChunkedAndLength"
                /\ parser.p.state = "stateHeaders"
                /\ HasBothFramings(parser.req.Headers)
C11_Witness ==
    /\ parser.at = "err"
    /\ parser.err = "ErrBothChunkedAndLength"
    /\ ParseStreams[client.sent[1]] \in {BothLengthFirst, BothChunkedFirst}
    /\ Len(net.inbound) = 2

\* C12 (request cap): on one connection the handler is invoked at most
\* config.MaxRequestsPerConn times, the cap the configuration supplies.
C12_RequestCapFromConfig == Len(hist.handled) <= conn.config.MaxRequestsPerConn

\* C13 (response before next read): no byte is written to the writer of request
\* N once reader.Read has returned for request N+1, whatever the handler,
\* TimeoutMiddleware included.
C13_ResponseBeforeNextRead == ~hist.late

\* C14 (hijack): once the handler has hijacked the connection, the loop has made
\* no keep-alive decision and has not closed the transport the handler owns.
C14_HijackYieldsTransport ==
    (hist.served /\ conn.hijacked) => hist.decision = "none" /\ ~conn.closed

\* C15 (panic before any byte): on a working transport, a handler that panics
\* before writing anything leaves exactly one response on the wire, a 500
\* Internal Server Error, and the loop does not reuse the connection.
C15_PanicBeforeBytes ==
    (hist.served /\ hist.abort = "before" /\ ~net.broken /\ inner.request = 0)
    => /\ Index(net.out, <<"H","T","T","P","/","1",".","1"," ","5","0","0"," ","I","n","t","e","r","n","a","l"," ","S","e","r","v","e","r"," ","E","r","r","o","r","\r","\n">>) = 0
       /\ Index(From(net.out, 1), <<"H","T","T","P","/","1",".","1"," ">>) = -1
       /\ hist.decision # "reuse"
       /\ conn.pc = "returned"

\* C16 (panic after bytes): a handler that panics after writing part of its
\* response gets no second status line, and the loop does not reuse the
\* connection whatever the headers say.
C16_PanicAfterBytes ==
    (hist.served /\ hist.abort = "after" /\ inner.request = 0)
    => /\ Index(From(net.out, 1), <<"H","T","T","P","/","1",".","1"," ">>) = -1
       /\ hist.decision # "reuse"
       /\ conn.pc = "returned"

\* C17 (state violations): every writer call rejected as a state violation
\* (any error other than a transport write failure) returns an error and
\* leaves the writer's hadError flag set.
C17_StateViolationSetsHadError ==
    hist.call.err \notin {"nil", "write error"} => w.hadError

\* C18 (transport write failures): a writer call whose transport write fails
\* returns the error, leaves hadError set and the writer in the phase the call
\* found it in; hadError is never reset; and for a writer with hadError set
\* shouldKeepAlive answers close, whatever the request asked for.
C18_WriteFailure ==
    /\ [](/\ hist.call.err = "write error" => (w.hadError /\ w.state = hist.call.state)
          /\ w.hadError =>
                 \A stream \in {SimpleGet, Get10KeepAlive} :
                     ~shouldKeepAlive(SingleRead(stream, DefaultConfig.MaxHeaderBytes,
                                                 DefaultConfig.MaxRequestBodySize).req,
                                      w, FALSE))
    /\ [][w.hadError => w'.hadError]_vars
\* a body write has failed on a reset transport after the headers went out
C18_Witness ==
    /\ hist.call.op = "WriteBody"
    /\ hist.call.err = "write error"
    /\ hist.call.state = "stateHeadersWritten"
    /\ w.hadError

\* C19 (shutdown deadline): once Shutdown has returned, no connection loop is
\* still running on an open transport: a connection still open when the
\* deadline expired has been closed.
C19_ShutdownClosesConnections ==
    shutdownPc \in {"returned nil", "returned timeout"}
        => ~(conn.pc \in {"read", "handler"} /\ ~conn.closed)

C21_BodySizeBoundary ==
    LET Boundary(B, L) ==
            /\ parser.at = "done" => (B <= L /\ Len(parser.req.Body) = B)
            /\ parser.at = "err" => (B > L /\ parser.err = "ErrBodyTooLarge")
        Checked(stream) ==
            Boundary(Len(SingleRead(stream, DefaultConfig.MaxHeaderBytes,
                                    DefaultConfig.MaxRequestBodySize).req.Body),
                     conn.config.MaxRequestBodySize)
    IN  (/\ parser.at \in {"done", "err"}
         /\ conn.config.MaxHeaderBytes = DefaultConfig.MaxHeaderBytes
         /\ ParseStreams[client.sent[1]] \in {PostLength, PostChunked})
            => Checked(ParseStreams[client.sent[1]])
\* a fixed-length body exactly at the limit has been parsed, every byte of the
\* stream read
C21_Witness ==
    /\ parser.at = "done"
    /\ ParseStreams[client.sent[1]] = PostLength
    /\ Len(parser.req.Body) = conn.config.MaxRequestBodySize
    /\ parser.p.totalBytesRead = Len(PostLength)

\* C22 (header size boundary): the outcome depends on the header bytes alone:
\* a complete, valid request whose request line and header section together are
\* no longer than MaxHeaderBytes parses, however the stream is cut into reads and
\* whatever body bytes follow; it never fails with ErrHeaderTooLarge.
C22_HeaderSizeBoundary ==
    LET Fits(stream) ==
            Index(stream, <<"\r","\n","\r","\n">>) + 4 <= EffectiveMaxHeaderBytes(conn.config.MaxHeaderBytes)
    IN  (/\ parser.at = "err"
         /\ client.sent[1] \in WellFormed
         /\ conn.config.MaxRequestBodySize = DefaultConfig.MaxRequestBodySize
         /\ Fits(ParseStreams[client.sent[1]]))
            => parser.err # "request.ErrHeaderTooLarge"

\* C23 (single-valued framing headers): once the header section has been parsed
\* to its blank line without error the store holds at most one value each for
\* host, content-length and transfer-encoding, however the stream was cut into
\* reads; a second Host or Transfer-Encoding line and a second Content-Length
\* with another value are fatal, and a second Content-Length with the same
\* value is accepted and not stored again.
C23_SingleValued ==
    LET One(h) ==
            \A key \in {<<"h","o","s","t">>, <<"c","o","n","t","e","n","t","-","l","e","n","g","t","h">>, <<"t","r","a","n","s","f","e","r","-","e","n","c","o","d","i","n","g">>} :
                Len(GetAll(h, key)) <= 1
        Sent(i) == ParseStreams[client.sent[1]] = ExtraStreams[i]
    IN  /\ parser.p.state \in {"stateBody", "stateDone"} => One(parser.req.Headers)
        /\ (/\ parser.at \in {"done", "err"}
            /\ conn.config.MaxHeaderBytes = DefaultConfig.MaxHeaderBytes)
           => /\ Sent(1) => parser.err = "ErrDuplicateHost"
              /\ Sent(2) => /\ parser.at = "done"
                            /\ GetAll(parser.req.Headers, <<"c","o","n","t","e","n","t","-","l","e","n","g","t","h">>) = <<<<"2">>>>
                            /\ parser.req.Body = <<"a","b">>
              /\ Sent(3) => parser.err = "ErrConflictingContentLength"
              /\ Sent(4) => parser.err = "ErrDuplicateTransferEncoding"
\* the request with Content-Length: 2 twice has been parsed to the end
C23_Witness ==
    /\ parser.at = "done"
    /\ ParseStreams[client.sent[1]] = ExtraStreams[2]
    /\ Len(GetAll(parser.req.Headers, <<"c","o","n","t","e","n","t","-","l","e","n","g","t","h">>)) = 1
    /\ parser.p.headerLines > 0

\* C24 (idle deadline on reuse): while the loop waits, after the decision to
\* reuse, for the first byte of the next request, the read deadline in force is
\* the one set from IdleTimeout.
C24_IdleDeadlineOnReuse ==
    (/\ hist.decision = "reuse"
     /\ conn.pc = "read"
     /\ conn.requestCount > 1
     /\ parser.at = "read"
     /\ parser.p.totalBytesRead = 0)
        => conn.readDeadline = "IdleTimeout"

\* C25 (EOF in mid-parse): a stream that ends inside the request line, inside
\* the header section or inside the body (fewer bytes than Content-Length
\* declares, or a chunked body without its last chunk) fails with the
\* unexpected-EOF error and returns no Request; and no Request is ever returned
\* whose body is shorter than its Content-Length.
C25_UnexpectedEOF ==
    LET Incomplete ==
            {Truncated, ExtraStreams[6], ExtraStreams[7], ExtraStreams[8]}
        Whole(req) ==
            (~IsChunked(req) /\ ContentLength(req) > 0)
                => Len(req.Body) = ContentLength(req)
    IN  /\ parser.at = "done" => Whole(Returned(parser).req)
        /\ (/\ parser.at \in {"done", "err"}
            /\ conn.config.MaxHeaderBytes = DefaultConfig.MaxHeaderBytes
            /\ ParseStreams[client.sent[1]] \in Incomplete)
           => /\ parser.at = "err"
              /\ parser.err = "unexpected EOF"
              /\ Returned(parser).req = NewRequest
\* the stream with Content-Length: 5 and two body bytes has ended: the parser
\* holds the two bytes in stateBody and the parse has failed
C25_Witness ==
    /\ parser.at = "err"
    /\ parser.err = "unexpected EOF"
    /\ ParseStreams[client.sent[1]] = Truncated
    /\ parser.p.state = "stateBody"
    /\ Len(parser.req.Body) = 2

C28_HeaderLookup ==
    /\ [](\A names \in {{<<"X","-","C","u","s","t","o","m">>, <<"x","-","c","u","s","t","o","m">>, <<"X","-","C","U","S","T","O","M">>, <<"x","-","C","u","S","t","O","m">>},
                         {<<"A","c","c","e","p","t">>, <<"a","c","c","e","p","t">>, <<"A","C","C","E","P","T">>, <<"A","c","c","e","P","T">>}} :
             \A a, b \in names :
                /\ Get(w.headers, a) = Get(w.headers, b)
                /\ GetAll(w.headers, a) = GetAll(w.headers, b)
                /\ Get(w.headers, a) =
                       IF GetAll(w.headers, a) = <<>> THEN [value |-> <<>>, ok |-> FALSE]
                       ELSE [value |-> GetAll(w.headers, a)[1], ok |-> TRUE])
    /\ [][\A names \in {{<<"X","-","C","u","s","t","o","m">>, <<"x","-","c","u","s","t","o","m">>, <<"X","-","C","U","S","T","O","M">>, <<"x","-","C","u","S","t","O","m">>},
                          {<<"A","c","c","e","p","t">>, <<"a","c","c","e","p","t">>, <<"A","C","C","E","P","T">>, <<"A","c","c","e","P","T">>}} :
              \A a \in names :
                 GetAll(w'.headers, a) =
                     IF hist'.call.key \notin names THEN GetAll(w.headers, a)
                     ELSE IF hist'.call.op = "Set" THEN <<hist'.call.value>>
                     ELSE Append(GetAll(w.headers, a), hist'.call.value)]_vars
\* a name stored in one spelling by Set has been added to in another and is read
\* in a third
C28_Witness ==
    /\ hist.call.op = "Add"
    /\ hist.call.key = <<"X","-","C","U","S","T","O","M">>
    /\ GetAll(w.headers, <<"x","-","C","u","S","t","O","m">>) = <<<<"b">>, <<"c">>>>
    /\ Get(w.headers, <<"X","-","C","u","s","t","o","m">>) = [value |-> <<"b">>, ok |-> TRUE]

\* C29 (chunked flag decides the body): when the header section is complete and
\* the store's chunked flag is set, the parser is in Body decoding with the chunk
\* sub-parser, and it is Done only once the chunk sub-parser has reached the end
\* of the chunked body.
C29_ChunkedEntersBody ==
    (/\ parser.req.Headers.tracking.isChunked
     /\ parser.at # "err"
     /\ parser.p.state = "stateDone")
        => parser.p.chunkParser.state = "chunkStateDone"

\* C30 (monotonic parser states): from one read to the next the parser state
\* stays where it is or moves forward along RequestLine, Headers, Body, Done
\* (Headers may go to Done directly); and once the parse has failed or is
\* complete nothing changes any more.
C30_MonotonicStates ==
    [][/\ <<parser.p.state, parser'.p.state>> \in
              {<<"stateRequestLine", "stateRequestLine">>,
               <<"stateRequestLine", "stateHeaders">>,
               <<"stateRequestLine", "stateBody">>,
               <<"stateRequestLine", "stateDone">>,
               <<"stateHeaders", "stateHeaders">>,
               <<"stateHeaders", "stateBody">>,
               <<"stateHeaders", "stateDone">>,
               <<"stateBody", "stateBody">>,
               <<"stateBody", "stateDone">>,
               <<"stateDone", "stateDone">>}
       /\ parser.at \in {"err", "done"} => parser' = parser
       /\ parser'.at = "done" <=> parser'.p.state = "stateDone"]_vars
\* a chunked body that arrived after its headers has been decoded to the end
C30_Witness ==
    /\ parser.p.state = "stateDone"
    /\ parser.p.chunkParser.state = "chunkStateDone"
    /\ Len(parser.req.Body) > 0
    /\ parser.p.headerLines > 1

\* C31 (progress and termination of the parse): every pass from one reader.Read
\* to the next has read (the bytes taken from the stream are the bytes counted in
\* totalBytesRead, or the read reported the end of the stream, or the parse
\* failed), the bytes consumed so far never decrease and never exceed the bytes
\* read, a parser that goes back to read has not reached Done; and on every
\* finite stream followed by io.EOF the parse ends with a Request or an error:
\* every pass shortens the stream or ends the parse, and a parse that has not
\* has not ended has a next read, which at the end of the stream ends it.
C31_ProgressAndTermination ==
    /\ [][/\ parser.at = "read"
          /\ \/ /\ parser'.p.totalBytesRead > parser.p.totalBytesRead
                /\ parser'.p.totalBytesRead - parser.p.totalBytesRead
                       = Len(net.inbound) - Len(net'.inbound)
             \/ /\ net.inbound = <<>>
                /\ parser'.at \in {"done", "err"}
             \/ parser'.at = "err"
          /\ parser'.p.totalBytesRead - Len(parser'.p.buffer)
                 >= parser.p.totalBytesRead - Len(parser.p.buffer)
          /\ Len(parser'.p.buffer) <= parser'.p.totalBytesRead
          /\ parser'.at = "read" => parser'.p.state # "stateDone"]_vars
    /\ [][\/ Len(net'.inbound) < Len(net.inbound)
          \/ parser'.at \in {"done", "err"}]_vars
    /\ [](/\ parser.at \in {"read", "done", "err"}
          /\ (parser.at = "read" /\ net.inbound = <<>>) =>
                 AfterRead(parser.p, parser.req,
                           EffectiveMaxHeaderBytes(conn.config.MaxHeaderBytes),
                           <<>>, "io.EOF").at \in {"done", "err"})
\* a parse that went back to the reader with bytes it could not yet consume, and
\* one that ended on io.EOF
C31_Witness ==
    /\ parser.at = "err"
    /\ parser.err = "unexpected EOF"
    /\ Len(parser.p.buffer) > 0
    /\ parser.p.totalBytesRead > Len(parser.p.buffer)
    /\ net.inbound = <<>>

\* C32 (chunk sub-parser): over the reads of a chunked request the chunk parser
\* keeps chunkRead within chunkSize and the body as long as totalBodySize; a read
\* of one byte moves it along at most one of the edges Size -> Data -> DataCRLF
\* -> Size, Size(0) -> Trailer -> Done, and lengthens the body, by that byte,
\* exactly when it was in Data; Trailer and Done are never left backwards; two
\* bytes other than CRLF after a filled chunk end the parse with
\* ErrInvalidChunkFormat; and the body is at every read a prefix of the declared
\* chunks' data and on Done all of it.
C32_ChunkParser ==
    /\ [](IsChunked(parser.req) /\ parser.p.state \in {"stateBody", "stateDone"} =>
            /\ parser.p.chunkParser.totalBodySize = Len(parser.req.Body)
            /\ parser.p.chunkParser.state = "chunkStateData" =>
                   /\ parser.p.chunkParser.chunkRead >= 0
                   /\ parser.p.chunkParser.chunkRead < parser.p.chunkParser.chunkSize
            /\ parser.p.chunkParser.state = "chunkStateDataCRLF" =>
                   /\ parser.p.chunkParser.chunkSize > 0
                   /\ parser.p.chunkParser.chunkRead = parser.p.chunkParser.chunkSize
            /\ parser.p.chunkParser.state \in {"chunkStateTrailer", "chunkStateDone"} =>
                   parser.p.chunkParser.chunkSize = 0
            /\ parser.at = "done" <=> parser.p.chunkParser.state = "chunkStateDone"
            /\ \A e \in {<<PostChunked, <<"h","i">>>>, <<ExtraStreams[9], <<"h","i","y","o","u">>>>,
                          <<ExtraStreams[10], <<"h","i">>>>} :
                   ParseStreams[client.sent[1]] = e[1] =>
                       /\ Len(parser.req.Body) <= Len(e[2])
                       /\ parser.req.Body = Slice(e[2], 0, Len(parser.req.Body))
                       /\ parser.at = "done" =>
                              (e[1] # ExtraStreams[10] /\ parser.req.Body = e[2])
            /\ (ParseStreams[client.sent[1]] = ExtraStreams[10] /\ parser.at = "err"
                    /\ conn.config.MaxHeaderBytes = DefaultConfig.MaxHeaderBytes) =>
                   /\ parser.err = "ErrInvalidChunkFormat"
                   /\ parser.req.Body = <<"h","i">>)
    /\ [][(IsChunked(parser'.req) /\ parser'.at # "err") =>
            /\ (parser.p.chunkParser.state \in {"chunkStateTrailer", "chunkStateDone"}) =>
                   parser'.p.chunkParser.state \in {parser.p.chunkParser.state, "chunkStateDone"}
            /\ Len(net.inbound) - Len(net'.inbound) = 1 =>
                   /\ <<parser.p.chunkParser.state, parser'.p.chunkParser.state>> \in
                          {<<"chunkStateSize", "chunkStateSize">>,
                           <<"chunkStateSize", "chunkStateData">>,
                           <<"chunkStateSize", "chunkStateTrailer">>,
                           <<"chunkStateData", "chunkStateData">>,
                           <<"chunkStateData", "chunkStateDataCRLF">>,
                           <<"chunkStateDataCRLF", "chunkStateDataCRLF">>,
                           <<"chunkStateDataCRLF", "chunkStateSize">>,
                           <<"chunkStateTrailer", "chunkStateTrailer">>,
                           <<"chunkStateTrailer", "chunkStateDone">>,
                           <<"chunkStateDone", "chunkStateDone">>}
                   /\ IF parser.p.chunkParser.state = "chunkStateData"
                      THEN parser'.req.Body = Append(parser.req.Body, net.inbound[1])
                      ELSE parser'.req.Body = parser.req.Body]_vars
\* a read ended inside the second chunk of the two-chunk body: the chunk parser
\* waits in Data with one of its three bytes taken
C32_Witness ==
    /\ ParseStreams[client.sent[1]] = ExtraStreams[9]
    /\ parser.at = "read"
    /\ parser.p.chunkParser.state = "chunkStateData"
    /\ parser.p.chunkParser.chunkSize = 3
    /\ parser.p.chunkParser.chunkRead = 1
    /\ parser.req.Body = <<"h","i","y">>

\* C33 (trailers need a chunked stream): WriteTrailers called after a
\* fixed-length WriteBody on a response that is not chunked, with no chunk
\* written and no chunked stream finished, returns an error.
C33_TrailersNeedChunkedStream ==
    (/\ hist.call.op = "WriteTrailers"
     /\ ~w.isChunked
     /\ \E i \in 1..Len(hist.call.ops) : hist.call.ops[i] = "WriteBody"
     /\ \A i \in 1..Len(hist.call.ops) :
            hist.call.ops[i] \notin {"WriteChunk", "FinishChunked"})
        => hist.call.err # "nil"

\* C34 (convenience wrappers are complete): a handler that answered a request
\* with NoContentResponse on the fresh writer of that request, over a healthy
\* transport, leaves the writer in BodyWritten with Content-Length declared.
C34_WrapperCompletesResponse ==
    (/\ hist.served
     /\ w.statusCode = StatusNoContent
     /\ ~w.hadError)
        => (w.state = "stateBodyWritten" /\ HasContentLength(w))

\* C35 (the header-line limit counts field lines): a parse fails with
\* TooManyHeaders, from the header store or from the parser, only after more
\* than MaxHeaderLines field lines of the header section have been taken.
C35_LineLimitCountsLines ==
    parser.err \in {"headers.ErrTooManyHeaders", "request.ErrTooManyHeaders"}
        => parser.req.Headers.tracking.headerCount > MaxHeaderLines

\* C36 (rate limiter): for every IP, the Allow calls answered true since the
\* IP's bucket was last reset (created, or reset after a window) number at most
\* the configured rate.
C36_AtMostRatePerWindow ==
    \A ip \in DOMAIN srv.allowed : srv.allowed[ip] <= srv.rate

\* C39 (metrics consistency): every value Snapshot returns has
\* Errors4xx + Errors5xx <= RequestsTotal, and when no RecordRequest call is
\* under way RequestsTotal is the number of RecordRequest calls made.
C39_SnapshotConsistent ==
    /\ srv.snapshot.returned =>
           srv.snapshot.Errors4xx + srv.snapshot.Errors5xx <= srv.snapshot.RequestsTotal
    /\ (\A t \in DOMAIN srv.recording : srv.recording[t].pc = "idle") =>
           srv.metrics.RequestsTotal = srv.recorded

\* C37 (Shutdown versus accept): once Shutdown has returned nil no connection
\* handler is running and none is started afterwards.
C37_NilMeansNoHandler ==
    shutdownPc = "returned nil" => conn.pc \in {"accepted", "returned"}

\* C38 (one status line per writer): the goroutine TimeoutMiddleware left
\* behind never has a status line accepted by a writer that has already
\* recorded the status code of an emitted status line.
C38_OneStatusLinePerWriter ==
    [][(inner'.request = inner.request /\ inner'.w.statusCode # inner.w.statusCode)
           => inner.w.statusCode = 0]_vars

\* C40 (fixed-length body): while and after the parser reads a body of declared
\* length, the Request body is the bytes of the stream that follow the header
\* section, at most Content-Length of them; the parser has consumed the header
\* section and those bytes and nothing more; and the body has Content-Length
\* bytes exactly when the parser is in its Done state.
C40_FixedBody ==
    LET stream == ParseStreams[client.sent[1]]
        head == Index(stream, crlf \o crlf) + 4
        consumed == parser.p.totalBytesRead - Len(parser.p.buffer)
        cl == ContentLength(parser.req)
    IN  (/\ parser.p.state \in {"stateBody", "stateDone"}
         /\ ~IsChunked(parser.req)
         /\ cl > 0)
        => /\ Len(parser.req.Body) <= cl
           /\ parser.req.Body = Slice(stream, head, head + Len(parser.req.Body))
           /\ consumed = head + Len(parser.req.Body)
           /\ (Len(parser.req.Body) = cl) <=> (parser.p.state = "stateDone")
           /\ parser.at = "done" => parser.p.state = "stateDone"
\* the two body bytes are in the Request, the parse is done and the bytes of
\* the next request that the last read brought stay in the buffer
C40_Witness ==
    /\ ParseStreams[client.sent[1]] = ExtraStreams[11]
    /\ parser.at = "done"
    /\ parser.req.Body = <<"a","b">>
    /\ parser.p.buffer = <<"G","E","T"," ","/">>
====
